---- MODULE Spec2Model ----
(***************************************************************************)
(* State-machine model of the dork builder's session controller            *)
(* (dork_builder/viewmodels.py: AppViewModel), its query builder           *)
(* (dork_builder/query_builder.py) and its repository                      *)
(* (dork_builder/repository.py).                                           *)
(* The ui/ variant of the controller (dork_builder/ui/viewmodels.py on      *)
(* core/repository.py and core/query_builder.py) is modelled at the end.   *)
(*                                                                         *)
(* A Python str is modelled as a sequence of one-character strings, so    *)
(* that strip(), the placeholder regex and substitution are computed      *)
(* character by character.  A Python set is a set, a list a sequence      *)
(* (1-based: Python index i is position i + 1), a dict a function whose   *)
(* DOMAIN is the set of its keys.                                          *)
(***************************************************************************)
EXTENDS Integers, Sequences, FiniteSets, TLC

VARIABLES
    categories,        \* AppViewModel.categories : list of DorkCategory
    current_index,     \* AppViewModel.current_index
    checked_by_cat,    \* AppViewModel.checked_by_cat : key -> set of int
    not_by_cat,        \* AppViewModel.not_by_cat     : key -> set of int
    or_groups_by_cat,  \* AppViewModel.or_groups_by_cat : key -> list of sets
    vars,              \* AppViewModel.vars : name -> value
    parts,             \* AppViewModel.builder.parts
    bvars,             \* AppViewModel.builder.vars
    profiles,          \* AppViewModel.profiles : name -> Profile
    repo_categories,   \* DorkRepository.categories
    repo_profiles,     \* DorkRepository.profiles
    shared,            \* TRUE once load() made the controller's tables the repository's own objects
    store,             \* the JSON document at DorkRepository.json_path
    query,             \* argument of the last queryChanged signal
    shown_vars,        \* argument of the last variablesChanged signal
    steps,             \* history: the number of calls made so far
    saved,             \* history: name -> the controller state save_profile(name) was called in
    last,              \* history: the last call and whether it raised
    published,         \* history: the state at each save and signal of the last call, kept for delete_dorks and move_dorks
    ui_current_key,    \* ui.AppViewModel._current_key (dork_builder/ui/viewmodels.py)
    ui_checked         \* ui.AppViewModel._checked

vars_all == <<categories, current_index, checked_by_cat, not_by_cat,
              or_groups_by_cat, vars, parts, bvars, profiles, repo_categories,
              repo_profiles, shared, store, query, shown_vars, steps, saved, last,
              published, ui_current_key, ui_checked>>

\* the fields of the ui/ controller that the controller of viewmodels.py lacks
ui_vars == <<ui_current_key, ui_checked>>

----------------------------------------------------------------------------
(* Python values *)

EmptyDict == [x \in {} |-> {}]

\* None where a str is expected: a one-element sequence that is no str of the
\* model, whose elements are single characters
None == <<"None">>

Range(s) == {s[i] : i \in 1..Len(s)}

Min(S) == CHOOSE x \in S : \A y \in S : x <= y

\* sorted(S, reverse=True)
RECURSIVE SortedDescending(_)
SortedDescending(S) ==
    IF S = {} THEN <<>>
    ELSE LET m == CHOOSE x \in S : \A y \in S : y <= x
         IN <<m>> \o SortedDescending(S \ {m})

\* sorted(S) for a finite set of integers
RECURSIVE SortedSeq(_)
SortedSeq(S) == IF S = {} THEN <<>> ELSE <<Min(S)>> \o SortedSeq(S \ {Min(S)})

\* sorted(l) for a list of integers (duplicates kept)
RECURSIVE SortedList(_)
SortedList(l) ==
    IF l = <<>> THEN <<>>
    ELSE LET m == Min(Range(l))
             p == CHOOSE i \in 1..Len(l) : l[i] = m
         IN <<m>> \o SortedList(SubSeq(l, 1, p - 1) \o SubSeq(l, p + 1, Len(l)))

\* d.get(k, default)
Get(d, k, default) == IF k \in DOMAIN d THEN d[k] ELSE default

\* an assignment that keeps no other key
PutOnly(d, k, v) == [x \in {k} |-> v]

\* d[k] = v
Put(d, k, v) == [x \in DOMAIN d \cup {k} |-> IF x = k THEN v ELSE d[x]]

\* d.pop(k, None) that removes nothing
PopNothing(d, k) == d

\* d.pop(k, None)
Pop(d, k) == [x \in DOMAIN d \ {k} |-> d[x]]

\* l[i] is defined for -len(l) <= i < len(l); anything else raises IndexError
PyIndexOK(l, i) == -Len(l) <= i /\ i < Len(l)

PyGet(l, i) == IF i >= 0 THEN l[i + 1] ELSE l[Len(l) + i + 1]

\* del l[i], for 0 <= i < len(l)
DelAt(l, i) == SubSeq(l, 1, i) \o SubSeq(l, i + 2, Len(l))

\* l with the positions in R (0-based) removed
RECURSIVE DelAll(_, _)
DelAll(l, R) ==
    IF R = {} THEN l
    ELSE LET m == CHOOSE x \in R : \A y \in R : y <= x
         IN DelAll(DelAt(l, m), R \ {m})

----------------------------------------------------------------------------
(* str operations *)

IsSpace(c) == c \in {" ", "\t", "\n"}

WordChars == {"a", "b", "c", "d", "e", "f", "g", "h", "i", "j", "k", "l", "m",
              "n", "o", "p", "q", "r", "s", "t", "u", "v", "w", "x", "y", "z",
              "A", "B", "C", "D", "E", "F", "G", "H", "I", "J", "K", "L", "M",
              "N", "O", "P", "Q", "R", "S", "T", "U", "V", "W", "X", "Y", "Z",
              "0", "1", "2", "3", "4", "5", "6", "7", "8", "9", "_"}

RECURSIVE LStrip(_)
LStrip(s) == IF s # <<>> /\ IsSpace(Head(s)) THEN LStrip(Tail(s)) ELSE s

RECURSIVE RStrip(_)
RStrip(s) ==
    IF s # <<>> /\ IsSpace(s[Len(s)]) THEN RStrip(SubSeq(s, 1, Len(s) - 1)) ELSE s

\* s with no strip() applied
Unstripped(s) == s

\* s.strip()
Strip(s) == RStrip(LStrip(s))

\* length of the longest run of [A-Za-z0-9_] starting at position p of s
RECURSIVE WordRun(_, _)
WordRun(s, p) ==
    IF p <= Len(s) /\ s[p] \in WordChars THEN 1 + WordRun(s, p + 1) ELSE 0

\* VAR_RE, _VAR_RE = \{([A-Za-z0-9_]+)\} matches at position p of s
VarMatchAt(s, p) ==
    /\ p <= Len(s)
    /\ s[p] = "{"
    /\ WordRun(s, p + 1) >= 1
    /\ p + 1 + WordRun(s, p + 1) <= Len(s)
    /\ s[p + 1 + WordRun(s, p + 1)] = "}"

\* the names VAR_RE.finditer(s) yields, scanning from position p
RECURSIVE VarNamesFrom(_, _)
VarNamesFrom(s, p) ==
    IF p > Len(s) THEN {}
    ELSE IF VarMatchAt(s, p)
         THEN {SubSeq(s, p + 1, p + WordRun(s, p + 1))}
                  \cup VarNamesFrom(s, p + WordRun(s, p + 1) + 2)
         ELSE VarNamesFrom(s, p + 1)

\* sep.join(l)
RECURSIVE Join(_, _)
Join(sep, l) ==
    IF l = <<>> THEN <<>>
    ELSE IF Len(l) = 1 THEN l[1]
         ELSE l[1] \o sep \o Join(sep, Tail(l))

----------------------------------------------------------------------------
(* QueryBuilder (query_builder.py) *)

Tok(text) == [kind |-> "Tok", texts |-> <<text>>]

\* a negated token recorded as a plain one
NotAsTok(text) == [kind |-> "Tok", texts |-> <<text>>]

Not(text) == [kind |-> "Not", texts |-> <<text>>]

OrGroup(texts) == [kind |-> "OrGroup", texts |-> texts]

\* QueryBuilder.add
add(ps, text) == Append(ps, Tok(text))

\* QueryBuilder.add_not
add_not(ps, text) == Append(ps, Not(text))

\* [t for t in texts if str(t).strip()]
RECURSIVE NonBlank(_)
NonBlank(texts) ==
    IF texts = <<>> THEN <<>>
    ELSE IF Strip(Head(texts)) # <<>> THEN <<Head(texts)>> \o NonBlank(Tail(texts))
         ELSE NonBlank(Tail(texts))

\* the texts of a group added as plain tokens, one by one
add_or_group_flat(ps, texts) == ps \o [k \in 1..Len(texts) |-> Tok(texts[k])]

\* QueryBuilder.add_or_group
add_or_group(ps, texts) ==
    IF NonBlank(texts) # <<>> THEN Append(ps, OrGroup(NonBlank(texts))) ELSE ps

\* QueryBuilder._subst, scanning s from position p
RECURSIVE SubstFrom(_, _, _)
SubstFrom(vs, s, p) ==
    IF p > Len(s) THEN <<>>
    ELSE IF VarMatchAt(s, p)
         THEN LET n   == WordRun(s, p + 1)
                  key == SubSeq(s, p + 1, p + n)
              IN Get(vs, key, SubSeq(s, p, p + n + 1)) \o SubstFrom(vs, s, p + n + 2)
         ELSE <<s[p]>> \o SubstFrom(vs, s, p + 1)

\* the text with every placeholder left as it is
subst_nothing(vs, s) == s

subst(vs, s) == SubstFrom(vs, s, 1)

\* the string build() renders for one part
RenderPart(vs, p) ==
    IF p.kind = "Tok" THEN subst(vs, p.texts[1])
    ELSE IF p.kind = "Not" THEN <<"-">> \o subst(vs, p.texts[1])
    ELSE <<"(">> \o Join(<<" ", "O", "R", " ">>,
                         [i \in 1..Len(p.texts) |-> subst(vs, p.texts[i])])
               \o <<")">>

\* filter(None, (s.strip() for s in out))
RECURSIVE StripNonEmpty(_)
StripNonEmpty(out) ==
    IF out = <<>> THEN <<>>
    ELSE IF Strip(Head(out)) # <<>> THEN <<Strip(Head(out))>> \o StripNonEmpty(Tail(out))
         ELSE StripNonEmpty(Tail(out))

\* QueryBuilder.build
build(ps, vs) ==
    Join(<<" ">>, StripNonEmpty([i \in 1..Len(ps) |-> RenderPart(vs, ps[i])]))

----------------------------------------------------------------------------
(* AppViewModel: current category and query recompute *)

\* AppViewModel.current_category: 0 when there is none, else the 1-based position
CurPos(cats, cur) == IF 0 <= cur /\ cur < Len(cats) THEN cur + 1 ELSE 0

HasCurrent == CurPos(categories, current_index) # 0

CurCat == categories[CurPos(categories, current_index)]

CurKey == CurCat.key

\* first loop of _rebuild_query: one OrGroup part per group with >= 2 checked
\* members; acc.ok turns FALSE where c.items[i] raises IndexError
RECURSIVE GroupLoop(_, _, _, _, _)
GroupLoop(items, checked, groups, k, acc) ==
    IF k > Len(groups) \/ ~acc.ok THEN acc
    ELSE LET included == SortedSeq(groups[k] \cap checked) IN
         IF Len(included) >= 2
         THEN IF \A j \in 1..Len(included) : PyIndexOK(items, included[j])
              THEN GroupLoop(items, checked, groups, k + 1,
                       [parts |-> add_or_group(acc.parts,
                                      [j \in 1..Len(included) |-> PyGet(items, included[j])]),
                        used  |-> acc.used \cup Range(included),
                        ok    |-> TRUE])
              ELSE [acc EXCEPT !.ok = FALSE]
         ELSE GroupLoop(items, checked, groups, k + 1, acc)

\* second loop of _rebuild_query: the checked indices no group consumed
RECURSIVE TokenLoop(_, _, _, _, _)
TokenLoop(items, nots, order, k, acc) ==
    IF k > Len(order) \/ ~acc.ok THEN acc
    ELSE LET i == order[k] IN
         IF i \in acc.used THEN TokenLoop(items, nots, order, k + 1, acc)
         ELSE IF ~PyIndexOK(items, i) THEN [acc EXCEPT !.ok = FALSE]
         ELSE TokenLoop(items, nots, order, k + 1,
                  [acc EXCEPT !.parts = IF i \in nots
                                        THEN add_not(acc.parts, PyGet(items, i))
                                        ELSE add(acc.parts, PyGet(items, i))])

\* the texts of the individually emitted indices only
UsedTextsUngrouped(items, checked, groups, used) ==
    {PyGet(items, i) : i \in checked \ used}

\* used_texts of _rebuild_query, as the set of texts that are scanned
UsedTexts(items, checked, groups, used) ==
    {PyGet(items, i) : i \in checked \ used}
        \cup UNION {{PyGet(items, i) : i \in groups[k] \cap checked} :
                        k \in {j \in 1..Len(groups) :
                                   Cardinality(groups[j] \cap checked) >= 2}}

\* AppViewModel._collect_placeholders, as a set (the code sorts it for display)
collect_placeholders(texts) == UNION {VarNamesFrom(t, 1) : t \in texts}

\* AppViewModel._rebuild_query: the values it leaves in vars, builder.parts,
\* builder.vars, the signals it emits, and whether it raised
rebuild_query(cats, cur, chk, nts, grp, vs, ps0, bv0, q0, sv0, emit_vars) ==
    IF CurPos(cats, cur) = 0
    THEN [vars |-> vs, parts |-> <<>>, bvars |-> bv0, query |-> <<>>,
          shown |-> IF emit_vars THEN EmptyDict ELSE sv0, raised |-> FALSE]
    ELSE LET c       == cats[CurPos(cats, cur)]
             checked == Get(chk, c.key, {})
             nots    == Get(nts, c.key, {})
             groups  == Get(grp, c.key, <<>>)
             a1 == GroupLoop(c.items, checked, groups, 1,
                             [parts |-> <<>>, used |-> {}, ok |-> TRUE])
             a2 == TokenLoop(c.items, nots, SortedSeq(checked), 1, a1)
         IN IF ~a2.ok
            THEN [vars |-> vs, parts |-> a2.parts, bvars |-> bv0, query |-> q0,
                  shown |-> sv0, raised |-> TRUE]
            ELSE LET names == collect_placeholders(
                                  UsedTexts(c.items, checked, groups, a2.used))
                     vs2   == IF emit_vars
                              THEN [k \in DOMAIN vs \cup names |-> Get(vs, k, <<>>)]
                              ELSE vs
                 IN [vars |-> vs2, parts |-> a2.parts, bvars |-> vs,
                     query |-> build(a2.parts, vs),
                     shown |-> IF emit_vars THEN [k \in names |-> Get(vs2, k, <<>>)]
                               ELSE sv0,
                     raised |-> FALSE]

----------------------------------------------------------------------------
(* more str operations: case, slugs, decimal numerals *)

LowerLetters == <<"a", "b", "c", "d", "e", "f", "g", "h", "i", "j", "k", "l", "m",
                  "n", "o", "p", "q", "r", "s", "t", "u", "v", "w", "x", "y", "z">>

UpperLetters == <<"A", "B", "C", "D", "E", "F", "G", "H", "I", "J", "K", "L", "M",
                  "N", "O", "P", "Q", "R", "S", "T", "U", "V", "W", "X", "Y", "Z">>

\* a character left in its case
CaseKept(c) == c

\* ch.lower()
Lower(c) ==
    IF c \in Range(UpperLetters)
    THEN LowerLetters[CHOOSE i \in 1..Len(UpperLetters) : UpperLetters[i] = c]
    ELSE c

\* ch.upper()
Upper(c) ==
    IF c \in Range(LowerLetters)
    THEN UpperLetters[CHOOSE i \in 1..Len(LowerLetters) : LowerLetters[i] = c]
    ELSE c

\* the string as it is
Uncapitalized(s) == s

\* s.capitalize()
Capitalize(s) ==
    [i \in 1..Len(s) |-> IF i = 1 THEN Upper(s[i]) ELSE Lower(s[i])]

\* ch.isalnum()
IsAlnum(c) == c \in WordChars \ {"_"}

\* "".join(ch for ch in s if ch.isalnum() or ch in (" ", "-", "_"))
RECURSIVE SlugFilter(_)
SlugFilter(s) ==
    IF s = <<>> THEN <<>>
    ELSE IF IsAlnum(Head(s)) \/ Head(s) \in {" ", "-", "_"}
         THEN <<Head(s)>> \o SlugFilter(Tail(s))
         ELSE SlugFilter(Tail(s))

\* re.sub(r"\s+", "-", s)
RECURSIVE CollapseSpace(_)
CollapseSpace(s) ==
    IF s = <<>> THEN <<>>
    ELSE IF IsSpace(Head(s)) THEN <<"-">> \o CollapseSpace(LStrip(s))
         ELSE <<Head(s)>> \o CollapseSpace(Tail(s))

\* viewmodels._slugify (every character of the model's alphabet is ASCII, which
\* NFKD normalisation leaves as it is)
slugify(name) ==
    LET f == Strip(SlugFilter(name))
        s == CollapseSpace([i \in 1..Len(f) |-> Lower(f[i])])
    IN IF s # <<>> THEN s ELSE <<"c", "a", "t", "e", "g", "o", "r", "y">>

\* the digits, each one too high
DigitsShifted == <<"1", "2", "3", "4", "5", "6", "7", "8", "9", "0">>

Digits == <<"0", "1", "2", "3", "4", "5", "6", "7", "8", "9">>

\* str(n) for n >= 0
RECURSIVE Decimal(_)
Decimal(n) ==
    IF n < 10 THEN <<Digits[n + 1]>> ELSE Decimal(n \div 10) \o <<Digits[(n % 10) + 1]>>

\* the key with no while loop: base_key whether or not it is taken
UniqueKeyUnsuffixed(base_key, key, existing, i) == base_key

\* the while loop of create_category / rename_current_category: the first of
\* base_key, base_key-2, base_key-3, ... that is not in existing
RECURSIVE UniqueKey(_, _, _, _)
UniqueKey(base_key, key, existing, i) ==
    IF key \in existing
    THEN UniqueKey(base_key, base_key \o <<"-">> \o Decimal(i), existing, i + 1)
    ELSE key

----------------------------------------------------------------------------
(* DorkRepository (repository.py) *)

NoTips == [x \in {} |-> <<>>]

DorkCategory(key, label, items, tooltips) ==
    [key |-> key, label |-> label, items |-> items, tooltips |-> tooltips]

DEFAULTS ==
    <<[key |-> <<"f", "i", "l", "e", "s">>,
        items |-> <<<<"e", "x", "t", ":", "p", "d", "f">>,
                    <<"e", "x", "t", ":", "d", "o", "c", "x">>,
                    <<"e", "x", "t", ":", "x", "l", "s", "x">>,
                    <<"e", "x", "t", ":", "t", "x", "t">>>>],
      [key |-> <<"c", "o", "n", "t", "e", "n", "t">>,
        items |-> <<<<"i", "n", "t", "i", "t", "l", "e", ":", "\"", "i", "n", "d", "e", "x", " ", "o", "f", "\"">>,
                    <<"i", "n", "u", "r", "l", ":", "l", "o", "g", "i", "n">>,
                    <<"s", "i", "t", "e", ":", "{", "d", "o", "m", "a", "i", "n", "}">>>>],
      [key |-> <<"s", "e", "c", "r", "e", "t", "s">>,
        items |-> <<<<"f", "i", "l", "e", "t", "y", "p", "e", ":", "e", "n", "v">>,
                    <<"p", "a", "s", "s", "w", "o", "r", "d">>,
                    <<"\"", "A", "P", "I", " ", "K", "e", "y", "\"">>,
                    <<"i", "n", "u", "r", "l", ":", "c", "o", "n", "f", "i", "g">>>>]>>

AbsentStore == [kind |-> "absent", categories |-> <<>>, profiles |-> EmptyDict]

\* the entries of a dict comprehension over a list: a repeated key keeps its
\* first position and takes its last value
RECURSIVE DictEntries(_)
DictEntries(cats) ==
    IF cats = <<>> THEN <<>>
    ELSE LET rest == DictEntries(SubSeq(cats, 1, Len(cats) - 1))
             c    == cats[Len(cats)]
         IN IF \E i \in 1..Len(rest) : rest[i].key = c.key
            THEN [i \in 1..Len(rest) |-> IF rest[i].key = c.key THEN c ELSE rest[i]]
            ELSE Append(rest, c)

\* the document with every category's tooltips left out
SaveDocWithoutTooltips(rcats, rprofs) ==
    [kind       |-> "structured",
     categories |-> [i \in 1..Len(rcats) |-> [rcats[i] EXCEPT !.tooltips = NoTips]],
     profiles   |-> rprofs]

\* the document DorkRepository.save writes
SaveDoc(rcats, rprofs) ==
    [kind       |-> "structured",
     categories |-> DictEntries(rcats),
     profiles   |-> [n \in DOMAIN rprofs |->
                        [category    |-> rprofs[n].category,
                         checked     |-> rprofs[n].checked,
                         vars        |-> rprofs[n].vars,
                         not_indices |-> rprofs[n].not_indices,
                         or_groups   |-> rprofs[n].or_groups]]]

Profile(name, category, checked, vs, not_indices, or_groups) ==
    [name |-> name, category |-> category, checked |-> checked, vars |-> vs,
     not_indices |-> not_indices, or_groups |-> or_groups]

\* the contents of the store that are no JSON object, or an object with a
\* section of the wrong shape: "unparseable" is a file json.load rejects,
\* "list" a non-empty JSON list, "scalar" a JSON number other than 0,
\* "bad_categories" an object whose categories section is a list, and
\* "bad_index" an object with the categories given and a profile whose checked
\* list holds a string that is no numeral
Malformed(kind) ==
    [kind |-> kind, categories |-> <<>>, profiles |-> EmptyDict]

\* what load() leaves when it raises: self.categories is as it was, or the
\* parsed list when the exception comes from the profiles section
LoadRaised(doc, assigned) ==
    [categories |-> doc.categories, profiles |-> EmptyDict, store |-> doc,
     raised |-> TRUE, assigned |-> assigned]

\* DorkRepository.load: the categories and profiles it returns, the document
\* it leaves in the store, and whether it raised
RepoLoad(doc) ==
    IF doc.kind \in {"absent", "unparseable"}
           \/ (doc.kind = "legacy" /\ doc.categories = <<>>)
    THEN LET cats == [i \in 1..Len(DEFAULTS) |->
                         DorkCategory(DEFAULTS[i].key, Capitalize(DEFAULTS[i].key),
                                      DEFAULTS[i].items, NoTips)]
         IN [categories |-> cats, profiles |-> EmptyDict,
             store |-> SaveDoc(cats, EmptyDict), raised |-> FALSE, assigned |-> TRUE]
    ELSE IF doc.kind = "scalar" THEN LoadRaised(doc, FALSE)
    ELSE IF doc.kind = "list"
    THEN [categories |-> <<>>, profiles |-> EmptyDict, store |-> doc,
          raised |-> FALSE, assigned |-> TRUE]
    ELSE IF doc.kind = "legacy"
    THEN [categories |-> [i \in 1..Len(doc.categories) |->
                             DorkCategory(doc.categories[i].key,
                                          Capitalize(doc.categories[i].key),
                                          doc.categories[i].items, NoTips)],
          profiles |-> EmptyDict, store |-> doc, raised |-> FALSE, assigned |-> TRUE]
    ELSE IF doc.kind = "bad_categories" THEN LoadRaised(doc, FALSE)
    ELSE LET cats == [i \in 1..Len(doc.categories) |->
                         LET o == doc.categories[i]
                         IN DorkCategory(o.key,
                                         IF o.label # <<>> THEN o.label
                                         ELSE Capitalize(o.key),
                                         o.items, o.tooltips)]
         IN IF doc.kind = "bad_index"
            THEN [LoadRaised(doc, TRUE) EXCEPT !.categories = cats]
            ELSE [categories |-> cats,
                  profiles |-> [n \in DOMAIN doc.profiles |->
                                   LET o == doc.profiles[n]
                                   IN Profile(n, o.category, o.checked, o.vars,
                                              o.not_indices, o.or_groups)],
                  store |-> doc, raised |-> FALSE, assigned |-> TRUE]

----------------------------------------------------------------------------
(* AppViewModel: OR-group normalisation and index remapping *)

\* one pass of the while loop of _normalize_groups_for_category over
\* groups[k..]: each group is united with the first group of merged it meets
RECURSIVE MergePass(_, _, _)
MergePass(groups, k, acc) ==
    IF k > Len(groups) THEN acc
    ELSE LET g    == groups[k]
             hits == {j \in 1..Len(acc.merged) : acc.merged[j] \cap g # {}}
         IN IF hits # {}
            THEN MergePass(groups, k + 1,
                     [merged  |-> [acc.merged EXCEPT ![Min(hits)] = @ \cup g],
                      changed |-> TRUE])
            ELSE MergePass(groups, k + 1,
                     [merged |-> Append(acc.merged, g), changed |-> acc.changed])

\* the while loop left after its first pass
MergeLoopOnce(groups) ==
    MergePass(groups, 1, [merged |-> <<>>, changed |-> FALSE]).merged

RECURSIVE MergeLoop(_)
MergeLoop(groups) ==
    LET r == MergePass(groups, 1, [merged |-> <<>>, changed |-> FALSE])
    IN IF r.changed THEN MergeLoop(r.merged) ELSE r.merged

\* [g for g in groups if len(g) >= 2]
RECURSIVE AtLeastTwo(_)
AtLeastTwo(groups) ==
    IF groups = <<>> THEN <<>>
    ELSE IF Cardinality(Head(groups)) >= 2
         THEN <<Head(groups)>> \o AtLeastTwo(Tail(groups))
         ELSE AtLeastTwo(Tail(groups))

\* the normalisation with one merge pass where the code loops until no change
normalize_groups_one_pass(groups) ==
    AtLeastTwo(MergePass(AtLeastTwo(groups), 1,
                         [merged |-> <<>>, changed |-> FALSE]).merged)

\* AppViewModel._normalize_groups_for_category, on the list of groups
normalize_groups(groups) == AtLeastTwo(MergeLoop(AtLeastTwo(groups)))

\* remap_set without the shift: the removed indices are dropped, the others kept
remap_set_unshifted(s, removed) == {x \in s : x \notin Range(removed)}

\* remap_set of _reindex_after_removal; removed is a list and every entry of
\* it that is below idx counts, repeated entries included
remap_set(s, removed) ==
    {idx - Cardinality({j \in 1..Len(removed) : removed[j] < idx}) :
         idx \in {x \in s : x \notin Range(removed)}}

\* the group loop of _reindex_after_removal
remap_groups(groups, removed) ==
    AtLeastTwo([k \in 1..Len(groups) |-> remap_set(groups[k], removed)])

\* the entries already in a per-category dict are remapped, no entry is created
remap_entry(d, cat_key, removed) ==
    IF cat_key \in DOMAIN d
    THEN [d EXCEPT ![cat_key] = remap_set(d[cat_key], removed)]
    ELSE d

remap_groups_entry(d, cat_key, removed) ==
    IF cat_key \in DOMAIN d
    THEN [d EXCEPT ![cat_key] = remap_groups(d[cat_key], removed)]
    ELSE d

\* set(i for i in indices if 0 <= i < len(items))
InRange(indices, items) == {i \in Range(indices) : 0 <= i /\ i < Len(items)}

\* the list delete_dorks hands to _reindex_after_removal: sorted(indices)
delete_removed(indices, items) == SortedList(indices)

\* indices_sorted in descending order, as the removal loop of move_dorks walks it
move_removed_descending(indices, items) ==
    LET up == SortedSeq(InRange(indices, items))
    IN [k \in 1..Len(up) |-> up[Len(up) + 1 - k]]

\* the list move_dorks hands to _reindex_after_removal: indices_sorted
move_removed(indices, items) == SortedSeq(InRange(indices, items))

----------------------------------------------------------------------------
(* The calls *)

\* the record of a call: its name and whether it ended in an exception
Call(op) == [op |-> op, raised |-> FALSE]

repo_vars == <<repo_categories, repo_profiles, shared, store>>

profile_vars == <<profiles, saved>>

vm_vars == <<categories, current_index, checked_by_cat, not_by_cat,
             or_groups_by_cat, vars, parts, bvars, query, shown_vars>>

\* an early return: nothing but the record of the call changes
Return(call) ==
    /\ last' = call
    /\ published' = <<>>
    /\ UNCHANGED <<vm_vars, profile_vars, repo_vars>>

\* what a slot connected to a signal, or the store at a save, can see of the
\* category with this key at one point of a handler
Observed(point, key, cats, chk, nts, grp) ==
    [point   |-> point,
     items   |-> LET m == {i \in 1..Len(cats) : cats[i].key = key}
                 IN IF m = {} THEN <<>> ELSE cats[Min(m)].items,
     checked |-> Get(chk, key, {}),
     negated |-> Get(nts, key, {}),
     groups  |-> Get(grp, key, <<>>)]

\* the assignments of a handler followed by its trailing _rebuild_query; pub
\* is what the handler published before the recompute, and the signals of a
\* recompute that completes are published after it
Publishing(call, cats2, cur2, chk2, nts2, grp2, vs2, emit_vars, pub, key) ==
    LET r == rebuild_query(cats2, cur2, chk2, nts2, grp2, vs2,
                           parts, bvars, query, shown_vars, emit_vars)
    IN /\ published' =
              (IF r.raised THEN pub
               ELSE pub \o <<Observed("variablesChanged", key, cats2, chk2, nts2, grp2),
                              Observed("queryChanged", key, cats2, chk2, nts2, grp2)>>)
       /\ categories' = cats2
       /\ current_index' = cur2
       /\ checked_by_cat' = chk2
       /\ not_by_cat' = nts2
       /\ or_groups_by_cat' = grp2
       /\ vars' = r.vars
       /\ parts' = r.parts
       /\ bvars' = r.bvars
       /\ query' = r.query
       /\ shown_vars' = r.shown
       /\ last' = [call EXCEPT !.raised = r.raised]

\* the assignments of a handler followed by its trailing _rebuild_query
Commit(call, cats2, cur2, chk2, nts2, grp2, vs2, emit_vars) ==
    LET r == rebuild_query(cats2, cur2, chk2, nts2, grp2, vs2,
                           parts, bvars, query, shown_vars, emit_vars)
    IN /\ published' = <<>>
       /\ categories' = cats2
       /\ current_index' = cur2
       /\ checked_by_cat' = chk2
       /\ not_by_cat' = nts2
       /\ or_groups_by_cat' = grp2
       /\ vars' = r.vars
       /\ parts' = r.parts
       /\ bvars' = r.bvars
       /\ query' = r.query
       /\ shown_vars' = r.shown
       /\ last' = [call EXCEPT !.raised = r.raised]

\* self.repo.save() after the controller changed its category list to cats2:
\* the repository writes its own list, which is the controller's once loaded
RepoSave(cats2) ==
    /\ repo_categories' = (IF shared THEN cats2 ELSE repo_categories)
    /\ store' = SaveDoc(repo_categories', repo_profiles)
    /\ UNCHANGED <<repo_profiles, shared>>

\* categories with the items of the category at position pos replaced
WithItems(cats, pos, items) == [cats EXCEPT ![pos].items = items]

\* next(c for c in self.categories if c.key == key): its position, 0 for None
FindKey(cats, key) ==
    IF \E i \in 1..Len(cats) : cats[i].key = key
    THEN Min({i \in 1..Len(cats) : cats[i].key = key})
    ELSE 0

Keys(cats) == {cats[i].key : i \in 1..Len(cats)}

----------------------------------------------------------------------------
(* AppViewModel: load, current category, selection, groups, NOT *)

\* AppViewModel.load; when repo.load() raises, the controller is left as it
\* was and the repository holds the list it parsed before the exception
load ==
    LET r    == RepoLoad(store)
        call == Call("load")
    IN IF r.raised
       THEN /\ repo_categories' = (IF r.assigned THEN r.categories ELSE repo_categories)
            /\ shared' = (IF r.assigned THEN FALSE ELSE shared)
            /\ last' = [call EXCEPT !.raised = TRUE]
            /\ published' = <<>>
            /\ UNCHANGED <<repo_profiles, store, vm_vars, profile_vars>>
       ELSE /\ repo_categories' = r.categories
            /\ repo_profiles' = r.profiles
            /\ store' = r.store
            /\ shared' = TRUE
            /\ profiles' = r.profiles
            /\ saved' = [n \in DOMAIN saved \cap DOMAIN r.profiles |-> saved[n]]
            /\ Commit(call, r.categories,
                      IF r.categories # <<>> THEN 0 ELSE current_index,
                      checked_by_cat, not_by_cat, or_groups_by_cat, vars, TRUE)

\* set_current_index without its bounds check
set_current_index_unchecked(idx) ==
    /\ Commit(Call("set_current_index"), categories, idx, checked_by_cat,
              not_by_cat, or_groups_by_cat, vars, TRUE)
    /\ UNCHANGED <<profile_vars, repo_vars>>

\* AppViewModel.set_current_index
set_current_index(idx) ==
    LET call == Call("set_current_index")
    IN IF 0 <= idx /\ idx < Len(categories)
       THEN /\ Commit(call, categories, idx, checked_by_cat, not_by_cat,
                      or_groups_by_cat, vars, TRUE)
            /\ UNCHANGED <<profile_vars, repo_vars>>
       ELSE Return(call)

\* s.add(x) whether or not x is in s
ToggleAdd(s, x) == s \cup {x}

\* s.remove(x) if x in s else s.add(x)
Toggle(s, x) == IF x \in s THEN s \ {x} ELSE s \cup {x}

\* AppViewModel.toggle_checked
toggle_checked(item_index) ==
    LET call == Call("toggle_checked")
    IN IF ~HasCurrent THEN Return(call)
       ELSE /\ Commit(call, categories, current_index,
                      Put(checked_by_cat, CurKey,
                          Toggle(Get(checked_by_cat, CurKey, {}), item_index)),
                      not_by_cat, or_groups_by_cat, vars, TRUE)
            /\ UNCHANGED <<profile_vars, repo_vars>>

\* AppViewModel.set_checked
set_checked(indices) ==
    LET call == Call("set_checked")
    IN IF ~HasCurrent THEN Return(call)
       ELSE /\ Commit(call, categories, current_index,
                      Put(checked_by_cat, CurKey, Range(indices)),
                      not_by_cat, or_groups_by_cat, vars, TRUE)
            /\ UNCHANGED <<profile_vars, repo_vars>>

\* AppViewModel.toggle_not
toggle_not(item_index) ==
    LET call == Call("toggle_not")
    IN IF ~HasCurrent THEN Return(call)
       ELSE /\ Commit(call, categories, current_index, checked_by_cat,
                      Put(not_by_cat, CurKey,
                          Toggle(Get(not_by_cat, CurKey, {}), item_index)),
                      or_groups_by_cat, vars, TRUE)
            /\ UNCHANGED <<profile_vars, repo_vars>>

\* AppViewModel.make_or_group
make_or_group(indices) ==
    LET call == Call("make_or_group")
    IN IF ~HasCurrent \/ Len(indices) < 2 THEN Return(call)
       ELSE /\ Commit(call, categories, current_index,
                      Put(checked_by_cat, CurKey,
                          Get(checked_by_cat, CurKey, {}) \cup Range(indices)),
                      not_by_cat,
                      Put(or_groups_by_cat, CurKey,
                          normalize_groups(Append(Get(or_groups_by_cat, CurKey, <<>>),
                                                  Range(indices)))),
                      vars, TRUE)
            /\ UNCHANGED <<profile_vars, repo_vars>>

\* clear_groups that empties the negated set as well
clear_groups_and_negated ==
    LET call == Call("clear_groups")
    IN IF ~HasCurrent THEN Return(call)
       ELSE /\ Commit(call, categories, current_index, checked_by_cat,
                      Put(not_by_cat, CurKey, {}),
                      Put(or_groups_by_cat, CurKey, <<>>), vars, TRUE)
            /\ UNCHANGED <<profile_vars, repo_vars>>

\* AppViewModel.clear_groups
clear_groups ==
    LET call == Call("clear_groups")
    IN IF ~HasCurrent THEN Return(call)
       ELSE /\ Commit(call, categories, current_index, checked_by_cat, not_by_cat,
                      Put(or_groups_by_cat, CurKey, <<>>), vars, TRUE)
            /\ UNCHANGED <<profile_vars, repo_vars>>

\* AppViewModel._normalize_groups_for_category: the list held under cat_key
\* is replaced by its normalisation; nothing is recomputed or emitted
normalize_groups_for_category(cat_key) ==
    /\ or_groups_by_cat' =
           Put(or_groups_by_cat, cat_key,
               normalize_groups(Get(or_groups_by_cat, cat_key, <<>>)))
    /\ last' = Call("_normalize_groups_for_category")
    /\ published' = <<>>
    /\ UNCHANGED <<categories, current_index, checked_by_cat, not_by_cat, vars,
                   parts, bvars, query, shown_vars, profile_vars, repo_vars>>

\* AppViewModel.set_variable
set_variable(name, value) ==
    LET call == Call("set_variable")
    IN /\ Commit(call, categories, current_index, checked_by_cat, not_by_cat,
                 or_groups_by_cat, Put(vars, name, value), FALSE)
       /\ UNCHANGED <<profile_vars, repo_vars>>

----------------------------------------------------------------------------
(* AppViewModel: editing and moving dorks *)

\* the number of fragments over all categories
RECURSIVE TotalItems(_)
TotalItems(cats) ==
    IF cats = <<>> THEN 0 ELSE Len(Head(cats).items) + TotalItems(Tail(cats))

\* AppViewModel.rename_dork
rename_dork(item_index, new_text) ==
    LET call == Call("rename_dork")
    IN IF ~HasCurrent THEN Return(call)
       ELSE IF ~(0 <= item_index /\ item_index < Len(CurCat.items)) THEN Return(call)
       ELSE IF Strip(new_text) = <<>> \/ CurCat.items[item_index + 1] = Strip(new_text)
            THEN Return(call)
       ELSE LET cats2 == WithItems(categories, current_index + 1,
                             [CurCat.items EXCEPT ![item_index + 1] = Strip(new_text)])
            IN /\ RepoSave(cats2)
               /\ Commit(call, cats2, current_index, checked_by_cat, not_by_cat,
                         or_groups_by_cat, vars, TRUE)
               /\ UNCHANGED profile_vars

\* AppViewModel.add_dork
add_dork(text) ==
    LET call == Call("add_dork")
    IN IF ~HasCurrent THEN Return(call)
       ELSE IF Strip(text) = <<>> THEN Return(call)
       ELSE LET cats2 == WithItems(categories, current_index + 1,
                                   Append(CurCat.items, Strip(text)))
            IN /\ RepoSave(cats2)
               /\ Commit(call, cats2, current_index, checked_by_cat, not_by_cat,
                         or_groups_by_cat, vars, TRUE)
               /\ UNCHANGED profile_vars

\* AppViewModel.delete_dorks
delete_dorks(indices) ==
    LET call == Call("delete_dorks")
    IN IF ~HasCurrent \/ indices = <<>> THEN Return(call)
       ELSE LET removed == delete_removed(indices, CurCat.items)
                \* the removal loop, then _reindex_after_removal
                cats2   == WithItems(categories, current_index + 1,
                               DelAll(CurCat.items, InRange(indices, CurCat.items)))
                chk2    == remap_entry(checked_by_cat, CurKey, removed)
                nts2    == remap_entry(not_by_cat, CurKey, removed)
                grp2    == remap_groups_entry(or_groups_by_cat, CurKey, removed)
                \* then repo.save() and currentCategoryChanged
                pub     == <<Observed("repo.save", CurKey, cats2, chk2, nts2, grp2),
                             Observed("currentCategoryChanged", CurKey, cats2,
                                      chk2, nts2, grp2)>>
            IN /\ RepoSave(cats2)
               /\ Publishing(call, cats2, current_index, chk2, nts2, grp2,
                             vars, TRUE, pub, CurKey)
               /\ UNCHANGED profile_vars

\* AppViewModel.move_dorks
move_dorks(src_key, dst_key, indices) ==
    LET call == Call("move_dorks")
        src  == FindKey(categories, src_key)
        dst  == FindKey(categories, dst_key)
    IN IF src_key = dst_key \/ indices = <<>> THEN Return(call)
       ELSE IF src = 0 \/ dst = 0 THEN Return(call)
       ELSE LET items   == categories[src].items
                removed == move_removed(indices, items)
                texts   == [k \in 1..Len(removed) |-> items[removed[k] + 1]]
                \* the removal loop, _reindex_after_removal, dst.items.extend
                cats2   == WithItems(
                               WithItems(categories, src, DelAll(items, Range(removed))),
                               dst, categories[dst].items \o texts)
                chk2    == remap_entry(checked_by_cat, src_key, removed)
                nts2    == remap_entry(not_by_cat, src_key, removed)
                grp2    == remap_groups_entry(or_groups_by_cat, src_key, removed)
                \* then repo.save() and currentCategoryChanged
                pub     == <<Observed("repo.save", src_key, cats2, chk2, nts2, grp2),
                             Observed("currentCategoryChanged", src_key, cats2,
                                      chk2, nts2, grp2)>>
            IN /\ RepoSave(cats2)
               /\ Publishing(call, cats2, current_index, chk2, nts2, grp2,
                             vars, TRUE, pub, src_key)
               /\ UNCHANGED profile_vars

----------------------------------------------------------------------------
(* AppViewModel: category CRUD *)

\* AppViewModel.create_category
create_category(name) ==
    LET call == Call("create_category")
        raw  == Strip(name)
        key  == UniqueKey(slugify(raw), slugify(raw), Keys(categories), 2)
        cats2 == Append(categories, DorkCategory(key, raw, <<>>, NoTips))
    IN IF raw = <<>> THEN Return(call)
       ELSE /\ RepoSave(cats2)
            /\ Commit(call, cats2, Len(cats2) - 1,
                      Put(checked_by_cat, key, Get(checked_by_cat, key, {})),
                      Put(not_by_cat, key, Get(not_by_cat, key, {})),
                      Put(or_groups_by_cat, key, Get(or_groups_by_cat, key, <<>>)),
                      vars, TRUE)
            /\ UNCHANGED profile_vars

\* AppViewModel.delete_current_category
delete_current_category ==
    LET call == Call("delete_current_category")
    IN IF ~HasCurrent THEN Return(call)
       ELSE LET key   == CurKey
                cats2 == DelAt(categories, current_index)
            IN /\ RepoSave(cats2)
               /\ Commit(call, cats2,
                         IF current_index >= Len(cats2) THEN Len(cats2) - 1
                         ELSE current_index,
                         Pop(checked_by_cat, key), Pop(not_by_cat, key),
                         Pop(or_groups_by_cat, key), vars, TRUE)
               /\ UNCHANGED profile_vars

\* a re-keying that keeps the renamed category's entry only
ReKeyOnly(d, old_key, key, default) == [x \in {key} |-> Get(d, old_key, default)]

\* a re-keying that starts the new key with the default
ReKeyDefault(d, old_key, key, default) == Put(Pop(d, old_key), key, default)

\* d[key] = d.pop(old_key, default)
ReKey(d, old_key, key, default) == Put(Pop(d, old_key), key, Get(d, old_key, default))

\* AppViewModel.rename_current_category
rename_current_category(new_name) ==
    LET call == Call("rename_current_category")
        new_label == Strip(new_name)
    IN IF ~HasCurrent THEN Return(call)
       ELSE IF new_label = <<>> THEN Return(call)
       ELSE LET old_key  == CurKey
                base_key == slugify(new_label)
                key      == UniqueKey(base_key, base_key,
                                      Keys(categories) \ {old_key}, 2)
                pos      == current_index + 1
            IN IF base_key # old_key
               THEN LET cats2 == [categories EXCEPT ![pos].key = key,
                                                    ![pos].label = new_label]
                    IN /\ RepoSave(cats2)
                       /\ Commit(call, cats2, current_index,
                                 ReKey(checked_by_cat, old_key, key, {}),
                                 ReKey(not_by_cat, old_key, key, {}),
                                 ReKey(or_groups_by_cat, old_key, key, <<>>),
                                 vars, TRUE)
                       /\ UNCHANGED profile_vars
               ELSE LET cats2 == [categories EXCEPT ![pos].label = new_label]
                    IN /\ RepoSave(cats2)
                       /\ Commit(call, cats2, current_index, checked_by_cat,
                                 not_by_cat, or_groups_by_cat, vars, TRUE)
                       /\ UNCHANGED profile_vars

----------------------------------------------------------------------------
(* AppViewModel: profiles *)

\* AppViewModel.save_profile
save_profile(name) ==
    LET call == Call("save_profile")
    IN IF ~HasCurrent THEN Return(call)
       ELSE LET groups == Get(or_groups_by_cat, CurKey, <<>>)
                p == Profile(name, CurKey,
                             SortedSeq(Get(checked_by_cat, CurKey, {})),
                             vars,
                             SortedSeq(Get(not_by_cat, CurKey, {})),
                             [k \in 1..Len(groups) |-> SortedSeq(groups[k])])
            IN /\ repo_profiles' = Put(repo_profiles, name, p)
               /\ store' = SaveDoc(repo_categories, repo_profiles')
               /\ profiles' = Put(profiles, name, p)
               /\ saved' = Put(saved, name,
                               [category |-> CurKey,
                                checked  |-> Get(checked_by_cat, CurKey, {}),
                                negated  |-> Get(not_by_cat, CurKey, {}),
                                groups   |-> Range(groups),
                                vars     |-> vars])
               /\ last' = call
               /\ published' = <<>>
               /\ UNCHANGED <<vm_vars, repo_categories, shared>>

\* set(p.checked)
profile_checked(p) == Range(p.checked)

\* set(p.checked) where set(p.not_indices or []) is meant
profile_not_from_checked(p) == Range(p.checked)

\* set(p.not_indices or [])
profile_not(p) == Range(p.not_indices)

\* [set(g) for g in (p.or_groups or [])]
profile_groups(p) == [k \in 1..Len(p.or_groups) |-> Range(p.or_groups[k])]

\* AppViewModel.apply_profile
apply_profile(name) ==
    LET call == Call("apply_profile")
    IN IF name \notin DOMAIN profiles THEN Return(call)
       ELSE LET p   == profiles[name]
                pos == FindKey(categories, p.category)
            IN /\ Commit(call, categories,
                         IF pos # 0 THEN pos - 1 ELSE current_index,
                         Put(checked_by_cat, p.category, profile_checked(p)),
                         Put(not_by_cat, p.category, profile_not(p)),
                         Put(or_groups_by_cat, p.category, profile_groups(p)),
                         p.vars, TRUE)
               /\ UNCHANGED <<profile_vars, repo_vars>>

\* AppViewModel.delete_profile
delete_profile(name) ==
    LET call == Call("delete_profile")
    IN /\ repo_profiles' = Pop(repo_profiles, name)
       /\ store' = (IF name \in DOMAIN repo_profiles
                    THEN SaveDoc(repo_categories, repo_profiles')
                    ELSE store)
       /\ profiles' = Pop(profiles, name)
       /\ saved' = Pop(saved, name)
       /\ last' = call
       /\ published' = <<>>
       /\ UNCHANGED <<vm_vars, repo_categories, shared>>

----------------------------------------------------------------------------
(* Initial state and inputs *)

\* AppViewModel.__init__ and DorkRepository.__init__, on a store holding doc
Constructed(doc) ==
    /\ categories = <<>>
    /\ current_index = -1
    /\ checked_by_cat = EmptyDict
    /\ not_by_cat = EmptyDict
    /\ or_groups_by_cat = EmptyDict
    /\ vars = EmptyDict
    /\ parts = <<>>
    /\ bvars = EmptyDict
    /\ profiles = EmptyDict
    /\ repo_categories = <<>>
    /\ repo_profiles = EmptyDict
    /\ shared = FALSE
    /\ store = doc
    /\ query = <<>>
    /\ shown_vars = EmptyDict
    /\ steps = 0
    /\ saved = EmptyDict
    /\ last = Call("init")
    /\ published = <<>>
    /\ ui_current_key = None
    /\ ui_checked = {}

StructuredDoc(cats) ==
    [kind |-> "structured", categories |-> cats, profiles |-> EmptyDict]

KeyA == <<"a", "l", "p", "h", "a">>

KeyB == <<"b", "e", "t", "a">>

KeyNone == <<"n", "o", "n", "e">>

TextPlaceholder == <<"s", ":", "{", "d", "}">>

\* bounds of the exploration: the fragments over all categories and the
\* number of calls in a run
MaxItems == 7

MaxCats == 3

MaxFragSteps == 4

MaxProfSteps == 5

MaxSteps == 4

----------------------------------------------------------------------------
(* SpecFrag: selection and fragment operations on a loaded controller *)

\* a store with one category of five fragments and one of one fragment
FragDoc ==
    StructuredDoc(<<DorkCategory(KeyA, <<"A", "l", "p", "h", "a">>,
                                 <<<<"a">>, <<"b">>, <<"c">>, <<"d">>, <<"e">>>>, NoTips),
                    DorkCategory(KeyB, <<"B", "e", "t", "a">>, <<<<"z">>>>, NoTips)>>)

InitFrag == Constructed(FragDoc)

FragGroupArgs == {<<0, 3>>, <<2, 4>>, <<1, 3>>}

FragDeleteArgs == {<<1>>, <<0, 2>>, <<1, 1>>, <<-1>>, <<4>>}

FragMoveArgs == {<<KeyA, KeyB, <<0>>>>, <<KeyA, KeyB, <<3, 1>>>>,
                 <<KeyA, KeyB, <<0, 0, 9>>>>, <<KeyB, KeyA, <<0>>>>}

\* one more call is made
FragTick == steps < MaxFragSteps /\ steps' = steps + 1 /\ UNCHANGED ui_vars

NextFrag ==
    \/ FragTick /\ last.op = "init" /\ load
    \/ FragTick /\ \E i \in {1, 2} : set_current_index(i)
    \/ FragTick /\ toggle_checked(1)
    \/ FragTick /\ set_checked(<<1, 3>>)
    \/ FragTick /\ toggle_not(3)
    \/ FragTick /\ \E l \in FragGroupArgs : make_or_group(l)
    \/ FragTick /\ clear_groups
    \/ FragTick /\ rename_dork(1, <<" ", "q">>)
    \/ FragTick /\ TotalItems(categories) < MaxItems /\ add_dork(<<"q", " ">>)
    \/ FragTick /\ \E l \in FragDeleteArgs : delete_dorks(l)
    \/ FragTick /\ \E m \in FragMoveArgs : move_dorks(m[1], m[2], m[3])

SpecFrag == InitFrag /\ [][NextFrag]_vars_all


----------------------------------------------------------------------------
(* Spec: the whole controller, constructed on a store and then called *)

\* a store with a category of two fragments, the second with a placeholder,
\* and a category of one fragment
SessionDoc ==
    StructuredDoc(<<DorkCategory(KeyA, <<"A", "l", "p", "h", "a">>,
                                 <<<<"a">>, TextPlaceholder>>, NoTips),
                    DorkCategory(KeyB, <<"B", "e", "t", "a">>, <<<<"z">>>>, NoTips)>>)

Init == Constructed(SessionDoc)

Blank == <<" ">>

ProfileP == <<"p">>

ProfileQ == <<"q">>

IndexArgs == {-1, 0, 2}

GroupArgs == {<<0, 1>>, <<0>>, <<>>}

RenameArgs == {<<0, TextPlaceholder>>, <<0, Blank>>, <<0, <<>>>>, <<-1, <<"q">>>>,
               <<2, <<"q">>>>}

AddArgs == {<<"q">>, Blank, <<>>}

MoveArgs == {<<KeyA, KeyB, <<0>>>>, <<KeyA, KeyNone, <<0>>>>, <<KeyNone, KeyB, <<0>>>>,
             <<KeyA, KeyA, <<0>>>>, <<KeyA, KeyB, <<>>>>}

LabelArgs == {<<"B", "e", "t", "a">>, Blank, <<>>}

NameArgs == {ProfileP, ProfileQ}

\* one more call is made
Tick == steps < MaxSteps /\ steps' = steps + 1 /\ UNCHANGED ui_vars

Next ==
    \/ Tick /\ load
    \/ Tick /\ \E i \in IndexArgs \cup {1} : set_current_index(i)
    \/ Tick /\ toggle_checked(0)
    \/ Tick /\ set_checked(<<1>>)
    \/ Tick /\ toggle_not(0)
    \/ Tick /\ \E l \in GroupArgs : make_or_group(l)
    \/ Tick /\ clear_groups
    \/ Tick /\ set_variable(<<"d">>, <<"v">>)
    \/ Tick /\ \E a \in RenameArgs : rename_dork(a[1], a[2])
    \/ Tick /\ \E t \in AddArgs : TotalItems(categories) < MaxItems /\ add_dork(t)
    \/ Tick /\ delete_dorks(<<0>>)
    \/ Tick /\ \E m \in MoveArgs : move_dorks(m[1], m[2], m[3])
    \/ Tick /\ \E n \in LabelArgs : Len(categories) < MaxCats /\ create_category(n)
    \/ Tick /\ delete_current_category
    \/ Tick /\ \E n \in LabelArgs : rename_current_category(n)
    \/ Tick /\ save_profile(ProfileP)
    \/ Tick /\ \E n \in NameArgs : apply_profile(n)
    \/ Tick /\ \E n \in NameArgs : delete_profile(n)

Spec == Init /\ [][Next]_vars_all

----------------------------------------------------------------------------
(* SpecProf: profiles saved, the state changed, profiles applied *)

ProfTick == steps < MaxProfSteps /\ steps' = steps + 1 /\ UNCHANGED ui_vars

NextProf ==
    \/ ProfTick /\ last.op = "init" /\ load
    \/ ProfTick /\ set_current_index(1)
    \/ ProfTick /\ toggle_checked(0)
    \/ ProfTick /\ toggle_not(0)
    \/ ProfTick /\ make_or_group(<<0, 1>>)
    \/ ProfTick /\ clear_groups
    \/ ProfTick /\ set_variable(<<"d">>, <<"v">>)
    \/ ProfTick /\ rename_dork(0, TextPlaceholder)
    \/ ProfTick /\ delete_dorks(<<0>>)
    \/ ProfTick /\ delete_current_category
    \/ ProfTick /\ rename_current_category(<<"G", " ", "h">>)
    \/ ProfTick /\ save_profile(ProfileP)
    \/ ProfTick /\ apply_profile(ProfileP)
    \/ ProfTick /\ delete_profile(ProfileP)

SpecProf == Init /\ [][NextProf]_vars_all

----------------------------------------------------------------------------
(* SpecCat: categories created, renamed and deleted *)

MaxCatSteps == 4

LabelAlpha == <<"A", "l", "p", "h", "a">>

LabelBeta == <<"B", "e", "t", "a">>

CatLabelArgs == {LabelAlpha, LabelBeta}

CatTick == steps < MaxCatSteps /\ steps' = steps + 1 /\ UNCHANGED ui_vars

NextCat ==
    \/ CatTick /\ load
    \/ CatTick /\ \E i \in {0, 1} : set_current_index(i)
    \/ CatTick /\ \E i \in {0, 1} : toggle_checked(i)
    \/ CatTick /\ toggle_not(0)
    \/ CatTick /\ make_or_group(<<0, 1>>)
    \/ CatTick /\ \E n \in CatLabelArgs :
                      Len(categories) < MaxCats /\ create_category(n)
    \/ CatTick /\ \E n \in CatLabelArgs : rename_current_category(n)
    \/ CatTick /\ delete_current_category

SpecCat == Init /\ [][NextCat]_vars_all

----------------------------------------------------------------------------
(* SpecSel: fragments checked, negated and grouped, and the query rendered *)

MaxSelSteps == 5

KeyWeb == <<"w", "e", "b">>

TextSite == <<"s", "i", "t", "e", ":", "e", "x", "a", "m", "p", "l", "e", ".", "c", "o", "m">>

TextLogin == <<"i", "n", "u", "r", "l", ":", "l", "o", "g", "i", "n">>

\* a store with a category of four fragments, the last with a placeholder,
\* and a category of two fragments
SelDoc ==
    StructuredDoc(<<DorkCategory(KeyA, LabelAlpha,
                                 <<<<"a">>, <<"b">>, <<"c">>, TextPlaceholder>>, NoTips),
                    DorkCategory(KeyWeb, <<"W", "e", "b">>,
                                 <<TextSite, TextLogin>>, NoTips)>>)

InitSel == Constructed(SelDoc)

SelIndexArgs == {0, 1, 2, 3}

SelNotArgs == {0, 2}

SelGroupArgs == {<<0, 1>>, <<2, 3>>, <<1, 2>>}

SelTick == steps < MaxSelSteps /\ steps' = steps + 1 /\ UNCHANGED ui_vars

NextSel ==
    \/ SelTick /\ last.op = "init" /\ load
    \/ SelTick /\ \E i \in {0, 1} : set_current_index(i)
    \/ SelTick /\ \E i \in SelIndexArgs : toggle_checked(i)
    \/ SelTick /\ set_checked(<<0, 1>>)
    \/ SelTick /\ \E i \in SelNotArgs : toggle_not(i)
    \/ SelTick /\ \E l \in SelGroupArgs : make_or_group(l)
    \/ SelTick /\ clear_groups

SpecSel == InitSel /\ [][NextSel]_vars_all

----------------------------------------------------------------------------
(* Properties of the selection state under fragment operations *)

Checked(chk, key) == Get(chk, key, {})

Negated(nts, key) == Get(nts, key, {})

Groups(grp, key) == Get(grp, key, <<>>)

\* every index in a set, a list of groups, lies in [0, n)
InBounds(S, n) == \A i \in S : 0 <= i /\ i < n

IndexValidFor(cats, chk, nts, grp) ==
    \A p \in 1..Len(cats) :
        LET c == cats[p] IN
            /\ InBounds(Checked(chk, c.key), Len(c.items))
            /\ InBounds(Negated(nts, c.key), Len(c.items))
            /\ \A k \in 1..Len(Groups(grp, c.key)) :
                   InBounds(Groups(grp, c.key)[k], Len(c.items))

IndexValid == IndexValidFor(categories, checked_by_cat, not_by_cat, or_groups_by_cat)

FragmentOps == {"add_dork", "rename_dork", "delete_dorks", "move_dorks"}

\* i - |{r in R : r < i}|
Shift(i, R) == i - Cardinality({r \in R : r < i})

\* { i - |{r in R : r < i}| : i in s, i not in R }
Remapped(s, R) == {Shift(i, R) : i \in s \ R}

\* the groups, each remapped, those left with fewer than 2 members dropped
RECURSIVE RemappedGroups(_, _)
RemappedGroups(groups, R) ==
    IF groups = <<>> THEN <<>>
    ELSE IF Cardinality(Remapped(Head(groups), R)) >= 2
         THEN <<Remapped(Head(groups), R)>> \o RemappedGroups(Tail(groups), R)
         ELSE RemappedGroups(Tail(groups), R)

\* the fragments of items at the 0-based positions k, k+1, ... that are not in R
RECURSIVE KeptFrom(_, _, _)
KeptFrom(items, R, k) ==
    IF k >= Len(items) THEN <<>>
    ELSE IF k \in R THEN KeptFrom(items, R, k + 1)
         ELSE <<items[k + 1]>> \o KeptFrom(items, R, k + 1)

\* the fragments of items at the 0-based positions k, k+1, ... that are in R
RECURSIVE TakenFrom(_, _, _)
TakenFrom(items, R, k) ==
    IF k >= Len(items) THEN <<>>
    ELSE IF k \in R THEN <<items[k + 1]>> \o TakenFrom(items, R, k + 1)
         ELSE TakenFrom(items, R, k + 1)

\* l is a list of distinct indices of items
DistinctInRange(l, items) ==
    /\ l # <<>>
    /\ \A j \in 1..Len(l) : 0 <= l[j] /\ l[j] < Len(items)
    /\ \A j, k \in 1..Len(l) : l[j] = l[k] => j = k

ItemsOf(cats, key) == cats[FindKey(cats, key)].items

\* C1 (as claimed): a call of add_dork, rename_dork, delete_dorks or move_dorks,
\* with any index list, made in a state where every index of checked, negated
\* and the OR-groups of every category c is in [0, len(c.items)), ends in such
\* a state.
C1_IndexValidity ==
    [][(IndexValid /\ last'.op \in FragmentOps) => IndexValid']_vars_all

\* C2: delete_dorks(R) on the active category, R a list of distinct in-range
\* indices, leaves the fragments not in R in their order, makes checked and
\* negated { i - |{r in R : r < i}| : i in the old set, i not in R }, applies
\* the same to each OR-group and drops the groups left with fewer than 2 members.
C2_RemapOnDelete ==
    [][\A l \in FragDeleteArgs :
           (HasCurrent /\ DistinctInRange(l, CurCat.items) /\ delete_dorks(l)) =>
               LET R == Range(l) IN
               /\ ItemsOf(categories', CurKey) = KeptFrom(CurCat.items, R, 0)
               /\ Checked(checked_by_cat', CurKey)
                      = Remapped(Checked(checked_by_cat, CurKey), R)
               /\ Negated(not_by_cat', CurKey)
                      = Remapped(Negated(not_by_cat, CurKey), R)
               /\ Groups(or_groups_by_cat', CurKey)
                      = RemappedGroups(Groups(or_groups_by_cat, CurKey), R)]_vars_all

\* C2 witness: fragments [a, b, c, d] with checked {1, 3} had index 1 deleted:
\* the fragments are [a, c, d] and checked is {2}
C2_Witness ==
    /\ last.op = "delete_dorks"
    /\ HasCurrent
    /\ CurCat.items = <<<<"a">>, <<"c">>, <<"d">>>>
    /\ Checked(checked_by_cat, CurKey) = {2}


\* the OR-groups of every live category are pairwise disjoint, each of >= 2 members
GroupInvariantFor(cats, grp) ==
    \A p \in 1..Len(cats) :
        LET gs == Groups(grp, cats[p].key) IN
            /\ \A k \in 1..Len(gs) : Cardinality(gs[k]) >= 2
            /\ \A j, k \in 1..Len(gs) : j # k => gs[j] \cap gs[k] = {}

\* C3 (as claimed): after every operation the OR-groups of every category are
\* pairwise disjoint and each has at least 2 members.
C3_GroupInvariant == GroupInvariantFor(categories, or_groups_by_cat)

\* C4: move_dorks(src, dst, indices) between two live categories, src # dst,
\* removes the in-range fragments from src, appends them to dst in ascending
\* source order, keeps the order of the other fragments of src and dst, keeps
\* the total number of fragments, and remaps src's checked, negated and
\* OR-groups as a deletion of those indices does.
C4_CrossCategoryMove ==
    [][\A m \in FragMoveArgs :
           (/\ m[1] # m[2] /\ m[3] # <<>>
            /\ FindKey(categories, m[1]) # 0 /\ FindKey(categories, m[2]) # 0
            /\ move_dorks(m[1], m[2], m[3])) =>
               LET src == ItemsOf(categories, m[1])
                   dst == ItemsOf(categories, m[2])
                   R   == {i \in Range(m[3]) : 0 <= i /\ i < Len(src)}
               IN /\ ItemsOf(categories', m[1]) = KeptFrom(src, R, 0)
                  /\ ItemsOf(categories', m[2]) = dst \o TakenFrom(src, R, 0)
                  /\ TotalItems(categories') = TotalItems(categories)
                  /\ Checked(checked_by_cat', m[1])
                         = Remapped(Checked(checked_by_cat, m[1]), R)
                  /\ Negated(not_by_cat', m[1])
                         = Remapped(Negated(not_by_cat, m[1]), R)
                  /\ Groups(or_groups_by_cat', m[1])
                         = RemappedGroups(Groups(or_groups_by_cat, m[1]), R)]_vars_all

\* C4 witness: from alpha = [a, b, c, d, e] with 1 and 3 checked, the fragments
\* at 3 and 1 were moved to beta = [z]: alpha is [a, c, e] with nothing
\* checked, beta is [z, b, d]
C4_Witness ==
    /\ last.op = "move_dorks"
    /\ FindKey(categories, KeyA) # 0 /\ FindKey(categories, KeyB) # 0
    /\ ItemsOf(categories, KeyA) = <<<<"a">>, <<"c">>, <<"e">>>>
    /\ ItemsOf(categories, KeyB) = <<<<"z">>, <<"b">>, <<"d">>>>
    /\ KeyA \in DOMAIN checked_by_cat
    /\ checked_by_cat[KeyA] = {}

\* the indices that are checked, negated or in an OR-group of the category
Selected(chk, nts, grp, key) ==
    Checked(chk, key) \cup Negated(nts, key) \cup UNION Range(Groups(grp, key))

\* C5 (as claimed): move_dorks(src, dst, indices) between two live categories
\* changes none of dst's checked, negated and OR-groups, and none of the
\* fragments appended to dst is checked, negated or grouped in dst.
C5_MoveLeavesDestination ==
    [][\A m \in FragMoveArgs :
           (/\ m[1] # m[2] /\ m[3] # <<>>
            /\ FindKey(categories, m[1]) # 0 /\ FindKey(categories, m[2]) # 0
            /\ move_dorks(m[1], m[2], m[3])) =>
               /\ Checked(checked_by_cat', m[2]) = Checked(checked_by_cat, m[2])
               /\ Negated(not_by_cat', m[2]) = Negated(not_by_cat, m[2])
               /\ Groups(or_groups_by_cat', m[2]) = Groups(or_groups_by_cat, m[2])
               /\ \A i \in Selected(checked_by_cat', not_by_cat', or_groups_by_cat', m[2]) :
                      ~(Len(ItemsOf(categories, m[2])) <= i
                            /\ i < Len(ItemsOf(categories', m[2])))]_vars_all

\* some index of the list l is outside [0, len(items)) of the active category
SomeOutOfRange(l) ==
    \E j \in 1..Len(l) : ~(0 <= l[j] /\ l[j] < Len(CurCat.items))

SelectionUnchanged ==
    /\ Checked(checked_by_cat', CurKey) = Checked(checked_by_cat, CurKey)
    /\ Negated(not_by_cat', CurKey) = Negated(not_by_cat, CurKey)
    /\ Groups(or_groups_by_cat', CurKey) = Groups(or_groups_by_cat, CurKey)

\* C8 (as claimed): toggle_checked, set_checked, toggle_not and make_or_group
\* called with an index outside [0, len(items)) of the active category leave
\* checked, negated and the OR-groups unchanged and do not raise.
C8_InvalidIndexNoOp ==
    [][/\ (HasCurrent /\ SomeOutOfRange(<<1>>) /\ toggle_checked(1))
              => (SelectionUnchanged /\ ~last'.raised)
       /\ (HasCurrent /\ SomeOutOfRange(<<1, 3>>) /\ set_checked(<<1, 3>>))
              => (SelectionUnchanged /\ ~last'.raised)
       /\ (HasCurrent /\ SomeOutOfRange(<<3>>) /\ toggle_not(3))
              => (SelectionUnchanged /\ ~last'.raised)
       /\ \A l \in FragGroupArgs :
              (HasCurrent /\ SomeOutOfRange(l) /\ make_or_group(l))
                  => (SelectionUnchanged /\ ~last'.raised)]_vars_all


\* no index of the set is at or beyond n
BelowLen(S, n) == \A i \in S : i < n

----------------------------------------------------------------------------
(* Properties of profiles *)

\* the fragments of the category with this key at the checked indices
CheckedTexts(cats, chk, key) ==
    {ItemsOf(cats, key)[i + 1] :
         i \in {j \in Checked(chk, key) : 0 <= j /\ j < Len(ItemsOf(cats, key))}}

\* apply_profile(n) is called for a profile saved by save_profile(n) whose
\* category key is the key of a live category
AppliesLive(n) ==
    /\ n \in DOMAIN profiles
    /\ n \in DOMAIN saved
    /\ saved[n].category \in Keys(categories)
    /\ apply_profile(n)

SelectionRestored(n) ==
    LET key == saved[n].category IN
        /\ Checked(checked_by_cat', key) = saved[n].checked
        /\ Negated(not_by_cat', key) = saved[n].negated
        /\ Range(Groups(or_groups_by_cat', key)) = saved[n].groups

\* C6 (as claimed): apply_profile(n), made after save_profile(n) and any calls
\* that leave the profile's category alive, makes the category's checked,
\* negated and OR-groups and the variable map equal to what they were at the save.
C6_ProfileRoundTrip ==
    [][\A n \in NameArgs :
           AppliesLive(n) => (SelectionRestored(n) /\ vars' = saved[n].vars)]_vars_all

\* C6 (amended): the category's checked, negated and OR-groups are those of the
\* save; the variable map holds every saved variable with its saved value, and
\* any other key of it is a placeholder name of a checked fragment of the
\* category, with the empty string as its value.
C6_ProfileRoundTripAmended ==
    [][\A n \in NameArgs :
           AppliesLive(n) =>
               /\ SelectionRestored(n)
               /\ \A k \in DOMAIN saved[n].vars :
                      k \in DOMAIN vars' /\ vars'[k] = saved[n].vars[k]
               /\ \A k \in DOMAIN vars' \ DOMAIN saved[n].vars :
                      /\ vars'[k] = <<>>
                      /\ k \in collect_placeholders(
                                   CheckedTexts(categories', checked_by_cat',
                                                saved[n].category))]_vars_all

\* C6 witness: a profile saved with a checked fragment was applied to its live
\* category: checked is the saved set again, and the variable map has a name
\* the saved one had not
C6_Witness ==
    /\ last.op = "apply_profile"
    /\ ProfileP \in DOMAIN profiles /\ ProfileP \in DOMAIN saved
    /\ saved[ProfileP].category \in Keys(categories)
    /\ saved[ProfileP].checked # {}
    /\ Checked(checked_by_cat, saved[ProfileP].category) = saved[ProfileP].checked
    /\ DOMAIN vars # DOMAIN saved[ProfileP].vars

\* C7 (as claimed): apply_profile(n) for a profile whose category key is the
\* key of no live category changes no category's checked, negated or OR-groups,
\* nor the variable map, nor the active category.
C7_StaleProfileNoOp ==
    [][\A n \in NameArgs :
           (/\ n \in DOMAIN profiles
            /\ profiles[n].category \notin Keys(categories)
            /\ apply_profile(n)) =>
               /\ \A k \in DOMAIN checked_by_cat' \cup DOMAIN not_by_cat'
                               \cup DOMAIN or_groups_by_cat' :
                      /\ Checked(checked_by_cat', k) = Checked(checked_by_cat, k)
                      /\ Negated(not_by_cat', k) = Negated(not_by_cat, k)
                      /\ Groups(or_groups_by_cat', k) = Groups(or_groups_by_cat, k)
               /\ vars' = vars
               /\ current_index' = current_index]_vars_all

----------------------------------------------------------------------------
(* Properties of calls that are rejected *)

\* categories, selection state, variables, profiles and active category are
\* the same after the call, and the call returned normally
ReferenceNoOp ==
    /\ UNCHANGED <<categories, current_index, checked_by_cat, not_by_cat,
                   or_groups_by_cat, vars, profiles>>
    /\ ~last'.raised

\* i is no index of a fragment of the active category
NoFragmentAt(i) ==
    IF HasCurrent THEN ~(0 <= i /\ i < Len(CurCat.items)) ELSE TRUE

\* C9: set_current_index with an index outside [0, number of categories),
\* move_dorks with a source or destination key of no live category,
\* rename_dork with an out-of-range index, and apply_profile / delete_profile
\* with a name not in the profile table leave categories, selection state,
\* variables, profiles and active category unchanged and do not raise.
C9_UnknownReferenceNoOp ==
    [][/\ \A i \in IndexArgs \cup {1} :
              (~(0 <= i /\ i < Len(categories)) /\ set_current_index(i))
                  => ReferenceNoOp
       /\ \A m \in MoveArgs :
              (/\ FindKey(categories, m[1]) = 0 \/ FindKey(categories, m[2]) = 0
               /\ move_dorks(m[1], m[2], m[3])) => ReferenceNoOp
       /\ \A a \in RenameArgs :
              (NoFragmentAt(a[1]) /\ rename_dork(a[1], a[2])) => ReferenceNoOp
       /\ \A n \in NameArgs :
              (n \notin DOMAIN profiles /\ (apply_profile(n) \/ delete_profile(n)))
                  => ReferenceNoOp]_vars_all

\* C9 witness: apply_profile was called while the profile table was empty, on
\* the two loaded categories with the first active and a fragment checked: the
\* active category and its checked set are as they were
C9_Witness ==
    /\ last.op = "apply_profile"
    /\ ~last.raised
    /\ DOMAIN profiles = {}
    /\ Len(categories) = 2
    /\ current_index = 0
    /\ Checked(checked_by_cat, KeyA) = {0}

\* empty or whitespace only
IsBlank(s) == \A k \in 1..Len(s) : IsSpace(s[k])

\* the category list with its fragment lists, the selection state and the
\* persisted store are the same after the call
RejectedNoEffect ==
    UNCHANGED <<categories, checked_by_cat, not_by_cat, or_groups_by_cat, store>>

\* C10: create_category and rename_current_category with a blank label,
\* add_dork and rename_dork with blank text, and make_or_group with fewer than
\* 2 indices leave the category list, the fragment lists, the selection state
\* and the persisted store unchanged.
C10_BlankInputRejected ==
    [][/\ \A n \in LabelArgs :
              (IsBlank(n) /\ (create_category(n) \/ rename_current_category(n)))
                  => RejectedNoEffect
       /\ \A t \in AddArgs : (IsBlank(t) /\ add_dork(t)) => RejectedNoEffect
       /\ \A a \in RenameArgs :
              (IsBlank(a[2]) /\ rename_dork(a[1], a[2])) => RejectedNoEffect
       /\ \A l \in GroupArgs :
              (Len(l) < 2 /\ make_or_group(l)) => RejectedNoEffect]_vars_all

\* C10 witness: create_category was the second call, on the loaded controller,
\* and the category list is still the two loaded categories: the label was blank
C10_Witness ==
    /\ last.op = "create_category"
    /\ steps = 2
    /\ shared
    /\ Len(categories) = 2

----------------------------------------------------------------------------
(* Properties of the category list *)

KeyAlpha2 == <<"a", "l", "p", "h", "a", "-", "2">>

KeyBeta2 == <<"b", "e", "t", "a", "-", "2">>

KeyBeta3 == <<"b", "e", "t", "a", "-", "3">>

\* C11: after any sequence of load, create_category, rename_current_category
\* and delete_current_category (and of selection calls between them), no two
\* categories of the live list have the same key.
C11_KeysUnique ==
    \A i, j \in 1..Len(categories) :
        categories[i].key = categories[j].key => i = j

\* C11 witness: three live categories, one created or renamed with a label
\* whose slug beta was taken: beta and beta-2 are both keys
C11_Witness ==
    /\ Len(categories) = 3
    /\ {KeyB, KeyBeta2} \subseteq Keys(categories)

\* key, label, items and checked, negated and OR-groups of the category c are
\* in the new state as they are in the old
CategoryKept(c) ==
    /\ \E p \in 1..Len(categories') : categories'[p] = c
    /\ Checked(checked_by_cat', c.key) = Checked(checked_by_cat, c.key)
    /\ Negated(not_by_cat', c.key) = Negated(not_by_cat, c.key)
    /\ Groups(or_groups_by_cat', c.key) = Groups(or_groups_by_cat, c.key)

\* C12: create_category(label) and rename_current_category(label), the label's
\* slug colliding with a live key or not, leave key, label, items and checked,
\* negated and OR-groups of every other category as they were.
C12_OthersKept ==
    [][\A n \in CatLabelArgs :
           /\ create_category(n) =>
                  \A p \in 1..Len(categories) : CategoryKept(categories[p])
           /\ (HasCurrent /\ rename_current_category(n)) =>
                  \A p \in 1..Len(categories) :
                      p # current_index + 1 => CategoryKept(categories[p])]_vars_all

\* C12 witness: the category beta was renamed to a label whose slug alpha is
\* the key of the other category, which has a fragment checked: it is alpha
\* still, with that fragment checked, and the renamed one is alpha-2
C12_Witness ==
    /\ last.op = "rename_current_category"
    /\ Keys(categories) = {KeyA, KeyAlpha2}
    /\ Checked(checked_by_cat, KeyA) # {}

\* s-n, for the suffixes the bounded category list can need
Suffixed(s, n) ==
    s \o <<"-">> \o (CASE n = 2 -> <<"2">> [] n = 3 -> <<"3">> [] n = 4 -> <<"4">>
                        [] n = 5 -> <<"5">> [] n = 6 -> <<"6">>)

\* s when s is not in K, else s-n for the smallest n >= 2 with s-n not in K
ExpectedKey(s, K) ==
    IF s \notin K THEN s
    ELSE Suffixed(s, Min({n \in 2..(Cardinality(K) + 2) : Suffixed(s, n) \notin K}))

\* C13: the key create_category and rename_current_category assign for a label
\* of slug s is s when s is the key of no other live category, else s-n for the
\* smallest n >= 2 such that s-n is the key of no other live category.
C13_SlugSuffix ==
    [][\A n \in CatLabelArgs :
           /\ create_category(n) =>
                  categories'[Len(categories')].key
                      = ExpectedKey(slugify(n), Keys(categories))
           /\ (HasCurrent /\ rename_current_category(n)) =>
                  categories'[current_index + 1].key
                      = ExpectedKey(slugify(n), Keys(DelAt(categories, current_index)))
      ]_vars_all

\* C13 witness: with beta and beta-2 live, a third category took the slug beta
\* and has the key beta-3
C13_Witness ==
    Keys(categories) = {KeyB, KeyBeta2, KeyBeta3}

\* C14: delete_current_category removes the deleted key from the checked,
\* negated and OR-group maps, removes that category and no other from the live
\* list, and leaves items and selection state of every other category unchanged.
C14_DeleteCascades ==
    [][(HasCurrent /\ delete_current_category) =>
           /\ CurKey \notin DOMAIN checked_by_cat'
           /\ CurKey \notin DOMAIN not_by_cat'
           /\ CurKey \notin DOMAIN or_groups_by_cat'
           /\ Len(categories') = Len(categories) - 1
           /\ \A p \in 1..Len(categories) :
                  p # current_index + 1 =>
                      /\ categories'[IF p <= current_index THEN p ELSE p - 1]
                             = categories[p]
                      /\ CategoryKept(categories[p])]_vars_all

\* C14 witness: alpha, whose second fragment was checked (its placeholder d is
\* in the variable map), was deleted: beta is the one live category and the
\* maps have no entry for alpha
C14_Witness ==
    /\ last.op = "delete_current_category"
    /\ Keys(categories) = {KeyB}
    /\ <<"d">> \in DOMAIN vars
    /\ KeyA \notin DOMAIN checked_by_cat \cup DOMAIN not_by_cat
                        \cup DOMAIN or_groups_by_cat

----------------------------------------------------------------------------
(* Properties of the selection calls *)

\* S with every set of GS that meets it, n times over
RECURSIVE Grow(_, _, _)
Grow(S, GS, n) ==
    IF n = 0 THEN S
    ELSE Grow(S \cup UNION {h \in GS : h \cap S # {}}, GS, n - 1)

\* the connected components of the overlap relation on the sets of GS, each
\* as the union of its sets
Components(GS) == {Grow(g, GS, Cardinality(GS)) : g \in GS}

\* C16: make_or_group(indices) with at least 2 indices adds every given index
\* to checked, and the OR-groups it leaves are the connected components, of
\* size >= 2, of the overlap relation on the previous groups and the new one,
\* each once.
C16_GroupsAreComponents ==
    [][\A l \in SelGroupArgs :
           (HasCurrent /\ Len(l) >= 2 /\ make_or_group(l)) =>
               LET after == Groups(or_groups_by_cat', CurKey) IN
               /\ Checked(checked_by_cat', CurKey)
                      = Checked(checked_by_cat, CurKey) \cup Range(l)
               /\ Range(after)
                      = {c \in Components(Range(Groups(or_groups_by_cat, CurKey))
                                              \cup {Range(l)}) :
                             Cardinality(c) >= 2}
               /\ Cardinality(Range(after)) = Len(after)]_vars_all

\* C16 witness: after load, three make_or_group calls with groups that
\* overlap in a chain ({0,1}, {2,3}, {1,2} in some order) left the one group
\* {0,1,2,3}, its members checked
C16_Witness ==
    /\ last.op = "make_or_group"
    /\ HasCurrent
    /\ Groups(or_groups_by_cat, CurKey) = <<{0, 1, 2, 3}>>
    /\ Checked(checked_by_cat, CurKey) = {0, 1, 2, 3}
    /\ steps = 4

\* C17: clear_groups empties the OR-group list of the active category and
\* leaves its checked and negated sets, and the items and selection state of
\* every other category, unchanged.
C17_ClearGroups ==
    [][(HasCurrent /\ clear_groups) =>
           /\ Groups(or_groups_by_cat', CurKey) = <<>>
           /\ Checked(checked_by_cat', CurKey) = Checked(checked_by_cat, CurKey)
           /\ Negated(not_by_cat', CurKey) = Negated(not_by_cat, CurKey)
           /\ categories' = categories
           /\ \A p \in 1..Len(categories) :
                  p # current_index + 1 => CategoryKept(categories[p])]_vars_all

\* C17 witness: the groups of a category with checked and negated fragments
\* were cleared: no group is left, the fragments 0 and 1 are checked still and
\* 0 is negated still
C17_Witness ==
    /\ last.op = "clear_groups"
    /\ HasCurrent
    /\ CurKey \in DOMAIN or_groups_by_cat
    /\ or_groups_by_cat[CurKey] = <<>>
    /\ Checked(checked_by_cat, CurKey) = {0, 1}
    /\ Negated(not_by_cat, CurKey) = {0}

\* s without i when i is in s, s with i when it is not
Flip(s, i) == (s \ {i}) \cup ({i} \ s)

\* C18: toggle_not(i) flips the membership of i in the negated set of the
\* active category, i checked or not, changes neither checked nor the
\* OR-groups, and a second toggle_not(i), flipping again, gives the negated
\* set back.
C18_ToggleNot ==
    [][\A i \in SelNotArgs :
           (HasCurrent /\ toggle_not(i)) =>
               /\ Negated(not_by_cat', CurKey) = Flip(Negated(not_by_cat, CurKey), i)
               /\ Flip(Negated(not_by_cat', CurKey), i) = Negated(not_by_cat, CurKey)
               /\ Checked(checked_by_cat', CurKey) = Checked(checked_by_cat, CurKey)
               /\ Groups(or_groups_by_cat', CurKey)
                      = Groups(or_groups_by_cat, CurKey)]_vars_all

\* C18 witness: after load, toggle_not was called twice on the active
\* category, the second call with the index of the first: the negated set,
\* which has an entry now, is empty again, and nothing is checked
C18_Witness ==
    /\ steps = 3
    /\ last.op = "toggle_not"
    /\ HasCurrent
    /\ CurKey \in DOMAIN not_by_cat
    /\ not_by_cat[CurKey] = {}
    /\ Checked(checked_by_cat, CurKey) = {}

----------------------------------------------------------------------------
(* Properties of the rendered query *)

\* the members of a finite set of integers in ascending order
Ascending(S) ==
    [k \in 1..Cardinality(S) |->
        CHOOSE x \in S : Cardinality({y \in S : y < x}) = k - 1]

\* the strings of a list with sep between each two
RECURSIVE Joined(_, _)
Joined(ts, sep) ==
    IF ts = <<>> THEN <<>>
    ELSE IF Len(ts) = 1 THEN ts[1]
         ELSE ts[1] \o sep \o Joined(Tail(ts), sep)

\* the texts of the fragments at the indices of S, ascending, with the
\* placeholders substituted from vs
TextsAt(items, S, vs) ==
    [k \in 1..Cardinality(S) |-> subst(vs, items[Ascending(S)[k] + 1])]

\* one parenthesized part per group with at least 2 checked members
RECURSIVE RenderedGroups(_, _, _, _)
RenderedGroups(items, checked, groups, vs) ==
    IF groups = <<>> THEN <<>>
    ELSE IF Cardinality(Head(groups) \cap checked) >= 2
         THEN <<<<"(">> \o Joined(TextsAt(items, Head(groups) \cap checked, vs),
                                   <<" ", "O", "R", " ">>) \o <<")">>>>
                  \o RenderedGroups(items, checked, Tail(groups), vs)
         ELSE RenderedGroups(items, checked, Tail(groups), vs)

\* the checked indices that a group with at least 2 checked members holds
InRenderedGroup(checked, groups) ==
    UNION {groups[k] \cap checked :
               k \in {j \in 1..Len(groups) : Cardinality(groups[j] \cap checked) >= 2}}

\* the other checked indices, ascending, each as -text when negated, else text
RenderedTokens(items, checked, nots, groups, vs) ==
    LET rest == checked \ InRenderedGroup(checked, groups)
    IN [k \in 1..Cardinality(rest) |->
           IF Ascending(rest)[k] \in nots
           THEN <<"-">> \o TextsAt(items, rest, vs)[k]
           ELSE TextsAt(items, rest, vs)[k]]

\* a call of SpecSel has recomputed the query of an active category and
\* published it
Recomputed ==
    /\ last' # last \/ steps' # steps
    /\ ~last'.raised
    /\ HasCurrent'

\* C19: a recompute for an active category with no OR-groups and no negated
\* indices publishes the texts of the checked fragments (their placeholders
\* substituted), in ascending index order, joined by single spaces.
C19_PlainRendering ==
    [][(/\ Recomputed
        /\ Groups(or_groups_by_cat, CurKey)' = <<>>
        /\ Negated(not_by_cat, CurKey)' = {}) =>
           query' = Joined(TextsAt(CurCat.items, Checked(checked_by_cat, CurKey),
                                   bvars)', <<" ">>)]_vars_all

\* C19 witness: the fragments site:example.com and inurl:login are both
\* checked, none negated, no group: the query is site:example.com inurl:login
C19_Witness ==
    /\ HasCurrent
    /\ CurCat.items = <<TextSite, TextLogin>>
    /\ Checked(checked_by_cat, CurKey) = {0, 1}
    /\ Negated(not_by_cat, CurKey) = {}
    /\ Groups(or_groups_by_cat, CurKey) = <<>>
    /\ query = TextSite \o <<" ">> \o TextLogin

\* C20: a recompute emits, for each OR-group with at least 2 checked members,
\* one parenthesized part joining exactly its checked members with ' OR ',
\* and nothing for a group with fewer; then every checked index that no such
\* part holds, as -text when it is negated and as text when it is not.
C20_GroupAndNotRendering ==
    [][Recomputed =>
           query' = Joined(
                        RenderedGroups(CurCat.items, Checked(checked_by_cat, CurKey),
                                       Groups(or_groups_by_cat, CurKey), bvars)'
                        \o RenderedTokens(CurCat.items, Checked(checked_by_cat, CurKey),
                                          Negated(not_by_cat, CurKey),
                                          Groups(or_groups_by_cat, CurKey), bvars)',
                        <<" ">>)]_vars_all

\* C20 witness: of the fragments a, b, c the group {0,1} was made and 2 is
\* checked and negated: the query is (a OR b) -c
C20_Witness ==
    /\ HasCurrent
    /\ Groups(or_groups_by_cat, CurKey) = <<{0, 1}>>
    /\ Checked(checked_by_cat, CurKey) = {0, 1, 2}
    /\ Negated(not_by_cat, CurKey) = {2}
    /\ query = <<"(", "a", " ", "O", "R", " ", "b", ")", " ", "-", "c">>

----------------------------------------------------------------------------
(* Negation in the rendered query *)

\* fragment i of the active category stands in the query with the - prefix,
\* as a word of its own between spaces
Excluded(i) ==
    LET w == <<"-">> \o subst(bvars, CurCat.items[i + 1])
        n == Len(w)
    IN \E p \in 1..(Len(query) - n + 1) :
           /\ query[p] = "-"
           /\ p = 1 \/ query[p - 1] = " "
           /\ p + n - 1 = Len(query) \/ query[p + n] = " "
           /\ SubSeq(query, p, p + n - 1) = w

\* C21 as stated: after a recompute, a fragment of the active category is
\* rendered with the - prefix if and only if its index is both checked and
\* negated.
C21_NegationObservable ==
    [][Recomputed =>
           \A i \in 0..(Len(CurCat.items') - 1) :
               Excluded(i)' <=> i \in (Checked(checked_by_cat, CurKey)
                                         \cap Negated(not_by_cat, CurKey))']_vars_all

\* C21 amended: after a recompute, a fragment of the active category is
\* rendered with the - prefix if and only if its index is both checked and
\* negated and no OR-group with at least 2 checked members holds it; a
\* checked and negated member of such a group is rendered inside the
\* parentheses without prefix.
C21_NegationObservableAmended ==
    [][Recomputed =>
           \A i \in 0..(Len(CurCat.items') - 1) :
               Excluded(i)' <=>
                   i \in ((Checked(checked_by_cat, CurKey) \cap Negated(not_by_cat, CurKey))
                             \ InRenderedGroup(Checked(checked_by_cat, CurKey),
                                               Groups(or_groups_by_cat, CurKey)))']_vars_all

\* C21 witness: group {0,1} of a, b, c is checked, 0 and 2 are negated and 2
\* is checked: only c carries the prefix
C21_Witness ==
    /\ HasCurrent
    /\ Groups(or_groups_by_cat, CurKey) = <<{0, 1}>>
    /\ Checked(checked_by_cat, CurKey) = {0, 1, 2}
    /\ Negated(not_by_cat, CurKey) = {0, 2}
    /\ query = <<"(", "a", " ", "O", "R", " ", "b", ")", " ", "-", "c">>

----------------------------------------------------------------------------
(* SpecVar: fragments with placeholders selected and variables set *)

MaxVarSteps == 5

TextE == <<"{", "e", "}">>

TextD == <<"{", "d", "}">>

\* a store with one category: a plain fragment, one with a placeholder in
\* it and two that are a placeholder only
VarDoc ==
    StructuredDoc(<<DorkCategory(KeyA, <<"A", "l", "p", "h", "a">>,
                                 <<<<"a">>, TextPlaceholder, TextE, TextD>>, NoTips)>>)

InitVar == Constructed(VarDoc)

VarIndexArgs == {0, 1, 2}

VarNotArgs == {1, 2}

VarGroupArgs == {<<2, 3>>, <<0, 1>>}

VarSetArgs == {<<<<"d">>, <<"v">>>>, <<<<"d">>, <<>>>>, <<<<"e">>, <<"v">>>>}

\* one more call is made
VarTick == steps < MaxVarSteps /\ steps' = steps + 1 /\ UNCHANGED ui_vars

NextVar ==
    \/ VarTick /\ last.op = "init" /\ load
    \/ VarTick /\ \E i \in VarIndexArgs : toggle_checked(i)
    \/ VarTick /\ \E i \in VarNotArgs : toggle_not(i)
    \/ VarTick /\ \E l \in VarGroupArgs : make_or_group(l)
    \/ VarTick /\ \E a \in VarSetArgs : set_variable(a[1], a[2])

SpecVar == InitVar /\ [][NextVar]_vars_all

----------------------------------------------------------------------------
(* Properties of substitution and of variable discovery *)

\* positions p..q of t are a placeholder {name}
IsPlaceholderAt(t, p, q) ==
    /\ t[p] = "{"
    /\ t[q] = "}"
    /\ q > p + 1
    /\ \A k \in (p + 1)..(q - 1) : t[k] \in WordChars

\* the names of the placeholders of t
PlaceholdersOf(t) ==
    {SubSeq(t, p + 1, q - 1) :
         <<p, q>> \in {pq \in (1..Len(t)) \X (1..Len(t)) : IsPlaceholderAt(t, pq[1], pq[2])}}

\* t from position p on, each placeholder whose name is a key of m replaced
\* by the value and each other placeholder left as it is
RECURSIVE Replaced(_, _, _)
Replaced(t, m, p) ==
    IF p > Len(t) THEN <<>>
    ELSE IF \E q \in p..Len(t) : IsPlaceholderAt(t, p, q)
         THEN LET q == CHOOSE r \in p..Len(t) : IsPlaceholderAt(t, p, r)
                  n == SubSeq(t, p + 1, q - 1)
              IN (IF n \in DOMAIN m THEN m[n] ELSE SubSeq(t, p, q))
                     \o Replaced(t, m, q + 1)
         ELSE <<t[p]>> \o Replaced(t, m, p + 1)

\* the string w stands in the query s as the text of a part: after the start,
\* a space, an opening parenthesis or the - prefix, and before the end, a
\* space or a closing parenthesis
IsTextOf(w, s) ==
    \/ w = <<>>
    \/ \E p \in 1..Len(s) :
           /\ p + Len(w) - 1 <= Len(s)
           /\ SubSeq(s, p, p + Len(w) - 1) = w
           /\ p = 1 \/ s[p - 1] \in {" ", "(", "-"}
           /\ p + Len(w) - 1 = Len(s) \/ s[p + Len(w)] \in {" ", ")"}

\* the checked indices of the active category
CheckedNow == Checked(checked_by_cat, CurKey)

\* C22: a recompute renders every checked fragment of the active category
\* with each {name} placeholder replaced by the variable map's value when
\* name is a key of the map the recompute renders with, and left as the
\* literal {name} when it is not; that map is the controller's variable map
\* without the names this same recompute discovers.
C22_Substitution ==
    [][Recomputed =>
           /\ \A i \in CheckedNow' :
                  IsTextOf(Replaced(CurCat.items[i + 1], bvars, 1)', query')
           /\ DOMAIN bvars' \subseteq DOMAIN vars'
           /\ \A n \in DOMAIN bvars' : bvars'[n] = vars'[n]
           /\ \A n \in DOMAIN vars' \ DOMAIN bvars' : n \notin DOMAIN vars]_vars_all

\* C22 witness: s:{d} is checked and rendered as s:v with d = v, while {e},
\* not yet in the map when it was rendered, stands as the literal {e}
C22_Witness ==
    /\ HasCurrent
    /\ CheckedNow = {1, 2}
    /\ <<"d">> \in DOMAIN bvars /\ bvars[<<"d">>] = <<"v">>
    /\ <<"e">> \notin DOMAIN bvars
    /\ query = <<"s", ":", "v", " ", "{", "e", "}">>

\* a call has recomputed the query of an active category and published the
\* variables
PublishedVars == Recomputed /\ last'.op # "set_variable"

\* the names of the placeholders of the checked fragments
CheckedNames == UNION {PlaceholdersOf(CurCat.items[i + 1]) : i \in CheckedNow}

\* C23: after a recompute that publishes variables, every placeholder name of
\* a checked fragment of the active category, emitted alone or inside a
\* group, is a key of the variable map; the names new to the map have the
\* value empty string, the values the map had are kept, and the published
\* map has exactly those names as keys, with the map's values.
C23_VariableDiscovery ==
    [][PublishedVars =>
           /\ DOMAIN vars' = DOMAIN vars \cup CheckedNames'
           /\ \A n \in DOMAIN vars : vars'[n] = vars[n]
           /\ \A n \in CheckedNames' \ DOMAIN vars : vars'[n] = <<>>
           /\ DOMAIN shown_vars' = CheckedNames'
           /\ \A n \in CheckedNames' : shown_vars'[n] = vars'[n]]_vars_all

\* C23 witness: {e} and {d} are rendered inside a group, d was set to v
\* before and e is discovered with the empty value
C23_Witness ==
    /\ HasCurrent
    /\ last.op = "make_or_group"
    /\ Groups(or_groups_by_cat, CurKey) = <<{2, 3}>>
    /\ vars = (<<"d">> :> <<"v">>) @@ (<<"e">> :> <<>>)
    /\ shown_vars = vars

\* every text of the part p substitutes to the empty string
SubstitutesToEmpty(p, m) ==
    \A k \in 1..Len(p.texts) : Replaced(p.texts[k], m, 1) = <<>>

\* the string of the part p: text, -text or (text OR ... OR text)
PartString(p, m) ==
    IF p.kind = "Tok" THEN Replaced(p.texts[1], m, 1)
    ELSE IF p.kind = "Not" THEN <<"-">> \o Replaced(p.texts[1], m, 1)
    ELSE <<"(">> \o Joined([k \in 1..Len(p.texts) |-> Replaced(p.texts[k], m, 1)],
                           <<" ", "O", "R", " ">>) \o <<")">>

\* the strings of the parts of ps whose text does not substitute to empty
RECURSIVE KeptParts(_, _)
KeptParts(ps, m) ==
    IF ps = <<>> THEN <<>>
    ELSE IF SubstitutesToEmpty(Head(ps), m) THEN KeptParts(Tail(ps), m)
         ELSE <<PartString(Head(ps), m)>> \o KeptParts(Tail(ps), m)

\* C24: the built query is the parts (plain token, negated token or
\* OR-group) whose text does not substitute to the empty string, joined by
\* single spaces; a part whose text substitutes to empty contributes nothing.
C24_EmptyPartsDropped ==
    [][Recomputed => query' = Joined(KeptParts(parts', bvars'), <<" ">>)]_vars_all

----------------------------------------------------------------------------
(* SpecStore: a controller constructed on each kind of stored document *)

MaxStoreSteps == 4

\* the document {}
EmptyDoc == [kind |-> "legacy", categories |-> <<>>, profiles |-> EmptyDict]

KeyO == <<"o", "s", "I", "n", "t">>

\* the flat document {"osInt": ["x", "y"], "beta": ["z"]}
LegacyDoc ==
    [kind       |-> "legacy",
     categories |-> <<[key |-> KeyO, items |-> <<<<"x">>, <<"y">>>>],
                      [key |-> KeyB, items |-> <<<<"z">>>>]>>,
     profiles   |-> EmptyDict]

\* a structured document with a tooltip and a profile
TipsDoc ==
    [kind       |-> "structured",
     categories |-> <<DorkCategory(KeyA, <<"A", "l", "p", "h", "a">>,
                                   <<<<"a">>, TextPlaceholder>>,
                                   (<<"a">> :> <<"t", "i", "p">>))>>,
     profiles   |-> (ProfileQ :> [category    |-> KeyA,
                                  checked     |-> <<0, 1>>,
                                  vars        |-> (<<"d">> :> <<"v">>),
                                  not_indices |-> <<1>>,
                                  or_groups   |-> <<<<0, 1>>>>])]

\* an object with a categories section and a profile whose checked list
\* holds the string "x"
BadIndexDoc ==
    [Malformed("bad_index") EXCEPT
         !.categories = <<DorkCategory(KeyA, <<>>, <<<<"a">>>>, NoTips)>>]

InitStore ==
    \/ Constructed(AbsentStore)
    \/ Constructed(EmptyDoc)
    \/ Constructed(LegacyDoc)
    \/ Constructed(TipsDoc)
    \/ Constructed(Malformed("unparseable"))
    \/ Constructed(Malformed("list"))
    \/ Constructed(Malformed("scalar"))
    \/ Constructed(Malformed("bad_categories"))
    \/ Constructed(BadIndexDoc)

\* one more call is made
StoreTick == steps < MaxStoreSteps /\ steps' = steps + 1 /\ UNCHANGED ui_vars

NextStore ==
    \/ StoreTick /\ load
    \/ StoreTick /\ toggle_checked(0)
    \/ StoreTick /\ TotalItems(categories) < MaxItems /\ add_dork(<<"q">>)
    \/ StoreTick /\ rename_dork(0, <<"q">>)
    \/ StoreTick /\ delete_dorks(<<0>>)
    \/ StoreTick /\ move_dorks(KeyO, KeyB, <<0>>)
    \/ StoreTick /\ \E n \in {LabelAlpha, LabelBeta} :
           Len(categories) < MaxCats /\ create_category(n)
    \/ StoreTick /\ rename_current_category(<<"G", " ", "h">>)
    \/ StoreTick /\ delete_current_category
    \/ StoreTick /\ save_profile(ProfileP)
    \/ StoreTick /\ apply_profile(ProfileQ)
    \/ StoreTick /\ delete_profile(ProfileQ)

SpecStore == InitStore /\ [][NextStore]_vars_all

----------------------------------------------------------------------------
(* Properties of the stored document *)

\* the categories cs are those of ds: keys in order, labels, items, tooltips
SameCategories(cs, ds) ==
    /\ Len(cs) = Len(ds)
    /\ \A i \in 1..Len(cs) :
           /\ cs[i].key = ds[i].key
           /\ cs[i].label = ds[i].label
           /\ cs[i].items = ds[i].items
           /\ cs[i].tooltips = ds[i].tooltips

\* the profiles ps are those of qs: names and the five fields
SameProfiles(ps, qs) ==
    /\ DOMAIN ps = DOMAIN qs
    /\ \A n \in DOMAIN ps :
           /\ ps[n].category = qs[n].category
           /\ ps[n].checked = qs[n].checked
           /\ ps[n].not_indices = qs[n].not_indices
           /\ ps[n].or_groups = qs[n].or_groups
           /\ ps[n].vars = qs[n].vars

DistinctKeys(cs) == \A i, j \in 1..Len(cs) : cs[i].key = cs[j].key => i = j

\* C25: for the category list and the profile table of the repository in
\* any state, with unique keys, loading the document that save writes
\* returns categories with the same keys in the same order, the same labels,
\* items and tooltips, and profiles with the same names and fields.
C25_PersistenceRoundTrip ==
    DistinctKeys(repo_categories) =>
        LET r == RepoLoad(SaveDoc(repo_categories, repo_profiles))
        IN /\ ~r.raised
           /\ SameCategories(r.categories, repo_categories)
           /\ SameProfiles(r.profiles, repo_profiles)

\* C25 witness: a list with a tooltip and a table of two profiles have been
\* saved by save_profile and the stored document loads to the same
C25_Witness ==
    /\ last.op = "save_profile"
    /\ DOMAIN repo_profiles = {ProfileP, ProfileQ}
    /\ \E i \in 1..Len(repo_categories) : repo_categories[i].tooltips # NoTips
    /\ store = SaveDoc(repo_categories, repo_profiles)
    /\ SameCategories(RepoLoad(store).categories, repo_categories)

\* the built-in categories: files, content and secrets with capitalized labels
DefaultCategories ==
    [i \in 1..3 |->
        [key      |-> DEFAULTS[i].key,
         label    |-> <<<<"F", "i", "l", "e", "s">>,
                        <<"C", "o", "n", "t", "e", "n", "t">>,
                        <<"S", "e", "c", "r", "e", "t", "s">>>>[i],
         items    |-> DEFAULTS[i].items,
         tooltips |-> NoTips]]

\* the store is absent or holds the empty document
EmptyStore(doc) ==
    doc.kind = "absent" \/ (doc.kind = "legacy" /\ doc.categories = <<>>)

\* C26: load on an absent or empty store returns the built-in categories and
\* no profiles and has written them to the store, and a load that follows
\* returns the same categories.
C26_DefaultsOnEmptyStore ==
    [][/\ (load /\ EmptyStore(store)) =>
              /\ ~last'.raised
              /\ categories' = DefaultCategories
              /\ profiles' = EmptyDict
              /\ store'.kind = "structured"
              /\ SameCategories(store'.categories, DefaultCategories)
              /\ store'.profiles = EmptyDict
       /\ (load /\ last.op = "load" /\ categories = DefaultCategories) =>
              /\ ~last'.raised
              /\ categories' = categories
              /\ store' = store]_vars_all

\* C26 witness: load was called twice on a store that was absent and the
\* built-in categories are live and stored
C26_Witness ==
    /\ steps = 2
    /\ last.op = "load"
    /\ categories = DefaultCategories
    /\ profiles = EmptyDict
    /\ store.kind = "structured"
    /\ SameCategories(store.categories, DefaultCategories)

\* the store holds what no save has written
IsMalformed(doc) ==
    doc.kind \in {"unparseable", "list", "scalar", "bad_categories", "bad_index"}

\* C27: load never raises, and on a malformed store (unparseable, no object,
\* a section or an index of the wrong shape) it returns the built-in
\* categories with no profiles and writes them to the store.
C27_LoadFailsSoft ==
    [][load =>
           /\ ~last'.raised
           /\ IsMalformed(store) =>
                  /\ categories' = DefaultCategories
                  /\ profiles' = EmptyDict
                  /\ store'.kind = "structured"
                  /\ SameCategories(store'.categories, DefaultCategories)]_vars_all

\* what the flat document loads to
LegacyLoaded ==
    <<[key |-> KeyO, label |-> <<"O", "s", "i", "n", "t">>,
       items |-> <<<<"x">>, <<"y">>>>, tooltips |-> NoTips],
      [key |-> KeyB, label |-> <<"B", "e", "t", "a">>,
       items |-> <<<<"z">>>>, tooltips |-> NoTips]>>

\* C28: load of a flat document returns one category per key with the
\* capitalized key as label, the fragments in order, no tooltips and no
\* profiles, and writes nothing; every save of a loaded controller writes the
\* structured shape, and that document loads to the live categories.
C28_LegacyMigration ==
    [][/\ (load /\ store = LegacyDoc) =>
              /\ ~last'.raised
              /\ categories' = LegacyLoaded
              /\ profiles' = EmptyDict
              /\ store' = store
       /\ (shared /\ store' # store) =>
              /\ store'.kind = "structured"
              /\ ~RepoLoad(store').raised
              /\ SameCategories(RepoLoad(store').categories, categories')]_vars_all

\* C28 witness: the flat document was loaded, a fragment was added, which
\* wrote the structured document, and that was loaded again
C28_Witness ==
    /\ steps = 3
    /\ last.op = "load"
    /\ store.kind = "structured"
    /\ Len(categories) = 2
    /\ categories[1].key = KeyO
    /\ categories[1].label = <<"O", "s", "i", "n", "t">>
    /\ categories[1].items = <<<<"x">>, <<"y">>, <<"q">>>>
    /\ categories[2] = LegacyLoaded[2]

----------------------------------------------------------------------------
(* The stored document against the live state *)

\* the category, fragment and profile operations that persist
PersistingOps ==
    {"create_category", "rename_current_category", "delete_current_category",
     "add_dork", "rename_dork", "delete_dorks", "move_dorks",
     "save_profile", "delete_profile"}

\* one of those operations has completed and changed the live categories or
\* the live profile table
Persisted ==
    /\ steps' # steps
    /\ last'.op \in PersistingOps
    /\ ~last'.raised
    /\ categories' # categories \/ profiles' # profiles

\* C29: after every completed category operation, fragment operation and
\* profile save or delete, the categories and profiles last written to the
\* store are the controller's live category list and profile table, whether
\* or not load has been called.
C29_StoreTracksLive ==
    [][Persisted =>
           /\ store'.kind = "structured"
           /\ SameCategories(store'.categories, categories')
           /\ SameProfiles(store'.profiles, profiles')]_vars_all

----------------------------------------------------------------------------
(* delete_dorks with an irregular index list *)

\* the distinct indices of l that are positions of items
InRangeOf(l, items) == {l[j] : j \in {k \in 1..Len(l) : 0 <= l[k] /\ l[k] < Len(items)}}

\* C30: delete_dorks(l) with duplicates, negative values or values >=
\* len(items) in l, called where every selected index is in range, removes
\* exactly the distinct in-range fragments and remaps checked, negated and the
\* OR-groups by that same set, so that a selected index of a surviving
\* fragment is the index of the same fragment after the call.
C30_IrregularDelete ==
    [][\A l \in FragDeleteArgs :
           (/\ HasCurrent
            /\ IndexValid
            /\ ~DistinctInRange(l, CurCat.items)
            /\ delete_dorks(l)) =>
               LET R == InRangeOf(l, CurCat.items) IN
               /\ ItemsOf(categories', CurKey) = KeptFrom(CurCat.items, R, 0)
               /\ Checked(checked_by_cat', CurKey)
                      = Remapped(Checked(checked_by_cat, CurKey), R)
               /\ Negated(not_by_cat', CurKey)
                      = Remapped(Negated(not_by_cat, CurKey), R)
               /\ Groups(or_groups_by_cat', CurKey)
                      = RemappedGroups(Groups(or_groups_by_cat, CurKey), R)]_vars_all

----------------------------------------------------------------------------
(* Profiles applied after fragments were removed *)

\* C31: apply_profile of a profile saved for a live category, called in a
\* state whose indices are all in range, after fragments of that category
\* were deleted or moved out, leaves every index of checked, negated and the
\* OR-groups of the category within [0, len(items)), and the recompute it
\* triggers completes.
C31_ApplyKeepsIndexValid ==
    [][\A n \in NameArgs :
           (IndexValid /\ AppliesLive(n)) =>
               /\ IndexValid'
               /\ ~last'.raised]_vars_all

----------------------------------------------------------------------------
(* A created category *)

\* C32: the category that create_category appends has no items and its
\* checked, negated and OR-group state is empty, whatever calls came before.
C32_NewCategoryEmpty ==
    [][\A n \in {LabelAlpha, LabelBeta} :
           (create_category(n) /\ Len(categories') = Len(categories) + 1) =>
               LET c == categories'[Len(categories')] IN
               /\ c.items = <<>>
               /\ Checked(checked_by_cat', c.key) = {}
               /\ Negated(not_by_cat', c.key) = {}
               /\ Groups(or_groups_by_cat', c.key) = <<>>]_vars_all

----------------------------------------------------------------------------
(* The published query against the state *)

\* the query a recompute publishes in the present state
Republished ==
    rebuild_query(categories, current_index, checked_by_cat, not_by_cat,
                  or_groups_by_cat, vars, parts, bvars, query, shown_vars, TRUE).query

\* C33: the query a recompute publishes is the one a second recompute, with
\* no change to fragments, selection, groups or variable values in between,
\* publishes again; so two calls of toggle_not(i) republish the query
\* published before them.
C33_QueryFunctionOfState ==
    [][Recomputed => Republished' = query']_vars_all

----------------------------------------------------------------------------
(* The parts of the builder against the checked set *)

\* how many texts of the parts ps are t
RECURSIVE TimesInParts(_, _)
TimesInParts(ps, t) ==
    IF ps = <<>> THEN 0
    ELSE Cardinality({k \in 1..Len(Head(ps).texts) : Head(ps).texts[k] = t})
             + TimesInParts(Tail(ps), t)

\* every part is a plain or negated token of one text or a group of at
\* least two
WellFormedParts(ps) ==
    \A k \in 1..Len(ps) :
        IF ps[k].kind = "OrGroup" THEN Len(ps[k].texts) >= 2
        ELSE Len(ps[k].texts) = 1

\* C34: after a recompute that leaves every index in range, the parts of the
\* builder hold the fragment of every checked index of the active category
\* exactly once, as a member of one OR-group part or as one plain or negated
\* token, and no fragment of an unchecked index.
C34_RenderedOnce ==
    [][(Recomputed /\ IndexValid') =>
           /\ WellFormedParts(parts')
           /\ \A t \in Range(CurCat.items') \cup
                       UNION {Range(parts'[k].texts) : k \in 1..Len(parts')} :
                  TimesInParts(parts', t)
                      = Cardinality({i \in CheckedNow' : CurCat.items'[i + 1] = t})]_vars_all

----------------------------------------------------------------------------
(* The active category index *)

\* C35: current_index is -1 exactly when the category list is empty and is
\* otherwise a position of the list.
C35_CurrentIndexValid ==
    IF categories = <<>> THEN current_index = -1
    ELSE 0 <= current_index /\ current_index < Len(categories)

----------------------------------------------------------------------------
(* The selection of a renamed category *)

\* C36: rename_current_category that changes the key leaves the category's
\* checked, negated and OR-groups, as they were, under the new key and
\* nothing under the old key, and keeps the items and the active position.
C36_RenameCarriesSelection ==
    [][\A n \in CatLabelArgs :
           (HasCurrent /\ rename_current_category(n) /\ CurKey' # CurKey) =>
               /\ Checked(checked_by_cat', CurKey') = Checked(checked_by_cat, CurKey)
               /\ Negated(not_by_cat', CurKey') = Negated(not_by_cat, CurKey)
               /\ Groups(or_groups_by_cat', CurKey') = Groups(or_groups_by_cat, CurKey)
               /\ CurKey \notin DOMAIN checked_by_cat'
               /\ CurKey \notin DOMAIN not_by_cat'
               /\ CurKey \notin DOMAIN or_groups_by_cat'
               /\ CurCat.items' = CurCat.items
               /\ current_index' = current_index
               /\ Len(categories') = Len(categories)]_vars_all

\* C36 witness: alpha, with the group {0,1} made, was renamed Beta while beta
\* is live: it is beta-2 with the group and both fragments, and nothing is
\* left under alpha
C36_Witness ==
    /\ last.op = "rename_current_category"
    /\ HasCurrent
    /\ CurKey = KeyBeta2
    /\ current_index = 0
    /\ Checked(checked_by_cat, KeyBeta2) = {0, 1}
    /\ Groups(or_groups_by_cat, KeyBeta2) = <<{0, 1}>>
    /\ KeyA \notin DOMAIN checked_by_cat
    /\ CurCat.items = <<<<"a">>, TextPlaceholder>>

----------------------------------------------------------------------------
(* The selection of the categories that are not active *)

\* the checked, negated and OR-groups held under key k are left as they were
StateKept(k) ==
    /\ Checked(checked_by_cat', k) = Checked(checked_by_cat, k)
    /\ Negated(not_by_cat', k) = Negated(not_by_cat, k)
    /\ Groups(or_groups_by_cat', k) = Groups(or_groups_by_cat, k)

StateKeys ==
    Keys(categories) \cup DOMAIN checked_by_cat \cup DOMAIN checked_by_cat'
        \cup DOMAIN not_by_cat \cup DOMAIN not_by_cat'
        \cup DOMAIN or_groups_by_cat \cup DOMAIN or_groups_by_cat'

OnlyActiveChanged ==
    \A k \in StateKeys : (HasCurrent /\ k = CurKey) \/ StateKept(k)

\* C37: toggle_checked, set_checked, toggle_not, make_or_group and clear_groups
\* change the checked, negated and OR-groups of no category but the active one,
\* and set_current_index changes those of no category, the one left and the
\* one entered included.
C37_SelectionPerCategory ==
    [][/\ (\E i \in SelIndexArgs : toggle_checked(i)) => OnlyActiveChanged
       /\ set_checked(<<0, 1>>) => OnlyActiveChanged
       /\ (\E i \in SelNotArgs : toggle_not(i)) => OnlyActiveChanged
       /\ (\E l \in SelGroupArgs : make_or_group(l)) => OnlyActiveChanged
       /\ clear_groups => OnlyActiveChanged
       /\ (\E i \in {0, 1} : set_current_index(i)) =>
              \A k \in StateKeys : StateKept(k)]_vars_all

\* C37 witness: a fragment of alpha was checked and one of web negated and
\* grouped while web was active, and alpha was entered again: each category
\* has the selection made in it
C37_Witness ==
    /\ last.op = "set_current_index"
    /\ current_index = 0
    /\ Checked(checked_by_cat, KeyA) = {2}
    /\ Groups(or_groups_by_cat, KeyA) = <<>>
    /\ Checked(checked_by_cat, KeyWeb) = {0, 1}
    /\ Groups(or_groups_by_cat, KeyWeb) = <<{0, 1}>>

----------------------------------------------------------------------------
(* SpecNorm: group lists of any shape, taken from a stored profile, normalised *)

MaxNormSteps == 4

\* the index sets of a category of four fragments, the empty set and the
\* singletons included
NormIndexSets == SUBSET {0, 1, 2, 3}

MaxNormLen == 3

\* the lists of at most MaxNormLen index sets
NormLists ==
    UNION {[1..n -> NormIndexSets] : n \in 0..MaxNormLen}

\* a store whose profile q holds the groups l for alpha and checks nothing
NormDoc(l) ==
    [kind       |-> "structured",
     categories |-> <<DorkCategory(KeyA, LabelAlpha,
                                   <<<<"a">>, <<"b">>, <<"c">>, TextPlaceholder>>,
                                   NoTips)>>,
     profiles   |-> (ProfileQ :> [category    |-> KeyA,
                                  checked     |-> <<>>,
                                  vars        |-> EmptyDict,
                                  not_indices |-> <<>>,
                                  or_groups   |-> [k \in 1..Len(l) |-> SortedSeq(l[k])]])]

InitNorm == \E l \in NormLists : Constructed(NormDoc(l))

\* one more call is made
NormTick == steps < MaxNormSteps /\ steps' = steps + 1 /\ UNCHANGED ui_vars

NextNorm ==
    \/ NormTick /\ last.op = "init" /\ load
    \/ NormTick /\ last.op = "load" /\ apply_profile(ProfileQ)
    \/ NormTick /\ normalize_groups_for_category(KeyA)
    \/ NormTick /\ last.op = "_normalize_groups_for_category"
                /\ make_or_group(<<1, 2>>)

SpecNorm == InitNorm /\ [][NextNorm]_vars_all

\* the list after n passes of the merge loop
RECURSIVE PassN(_, _)
PassN(groups, n) ==
    IF n = 0 THEN groups
    ELSE PassN(MergePass(groups, 1, [merged |-> <<>>, changed |-> FALSE]).merged,
               n - 1)

\* a pass over the list merges nothing
FixedPoint(groups) ==
    \A i, j \in 1..Len(groups) : i # j => groups[i] \cap groups[j] = {}

\* C38: _normalize_groups_for_category, on any list of index sets, leaves the
\* list reached after at most as many merge passes as the list has groups, on
\* which a further pass merges nothing, without the groups of fewer than 2
\* members; run on its own result it leaves the groups as they are.
C38_NormalizeIdempotent ==
    [][normalize_groups_for_category(KeyA) =>
           LET before == Groups(or_groups_by_cat, KeyA)
               after  == Groups(or_groups_by_cat', KeyA)
               start  == SelectSeq(before, LAMBDA g : Cardinality(g) >= 2)
           IN /\ \E n \in 0..Len(before) :
                     /\ FixedPoint(PassN(start, n))
                     /\ after = SelectSeq(PassN(start, n),
                                          LAMBDA g : Cardinality(g) >= 2)
              /\ (last.op = "_normalize_groups_for_category" => after = before)
              /\ ~last'.raised]_vars_all

\* C38 witness: the stored groups {0,1}, {2,3}, {1,2}, which take two merging
\* passes, were normalised to the one group {0,1,2,3} and normalised again
C38_Witness ==
    /\ last.op = "_normalize_groups_for_category"
    /\ steps = 4
    /\ ProfileQ \in DOMAIN profiles
    /\ profile_groups(profiles[ProfileQ]) = <<{0, 1}, {2, 3}, {1, 2}>>
    /\ Groups(or_groups_by_cat, KeyA) = <<{0, 1, 2, 3}>>

----------------------------------------------------------------------------
(* The ui/ variant of the controller (dork_builder/ui/viewmodels.py) on      *)
(* core/repository.py and core/query_builder.py.  Its _categories are kept  *)
(* in categories, _builder._parts in parts, the document at json_path in    *)
(* store and the argument of the last query_changed in query, which is the  *)
(* empty string until one is emitted; published holds the signals of the    *)
(* last call.  _cat_by_key holds the categories of the list under their     *)
(* keys: it is built from the list and every handler changes both alike.    *)

\* core.models.DorkCategory
CoreDorkCategory(key, label, items) ==
    [key |-> key, label |-> label, items |-> items]

\* the document core DorkRepository.load uses when the file does not exist
CORE_DEFAULTS ==
    <<[key |-> <<"g", "e", "n", "e", "r", "a", "l">>,
       items |-> <<<<"s", "i", "t", "e", ":", "e", "x", "a", "m", "p", "l", "e", ".", "c", "o", "m", " ", "i", "n", "u", "r", "l", ":", "l", "o", "g", "i", "n">>,
                   <<"i", "n", "t", "i", "t", "l", "e", ":", "\"", "i", "n", "d", "e", "x", " ", "o", "f", "\"", " ", "b", "a", "c", "k", "u", "p">>>>],
      [key |-> <<"i", "m", "p", "o", "r", "t", "a", "n", "t", "_", "f", "i", "l", "e", "s">>,
       items |-> <<<<"i", "n", "t", "i", "t", "l", "e", ":", "\"", "i", "n", "d", "e", "x", " ", "o", "f", "\"", " ", "\"", "a", "p", "p", "l", "i", "c", "a", "t", "i", "o", "n", ".", "p", "r", "o", "p", "e", "r", "t", "i", "e", "s", "\"">>,
                   <<"e", "x", "t", ":", "x", "l", "s", "x", " ", "i", "n", "u", "r", "l", ":", "d", "a", "t", "a", "b", "a", "s", "e">>>>]>>

\* s.replace(a, b) for characters a and b
Replace(s, a, b) == [i \in 1..Len(s) |-> IF s[i] = a THEN b ELSE s[i]]

\* s.lower()
LowerStr(s) == [i \in 1..Len(s) |-> Lower(s[i])]

\* s.title(): a letter is upper case at the start and after a character that
\* is no letter, lower case after a letter
Title(s) ==
    [i \in 1..Len(s) |->
        IF i = 1 \/ s[i - 1] \notin (Range(LowerLetters) \cup Range(UpperLetters))
        THEN Upper(s[i]) ELSE Lower(s[i])]

\* core DorkRepository.load
CoreLoad(doc) ==
    LET data == IF doc.kind = "absent" THEN CORE_DEFAULTS ELSE doc.categories
    IN [i \in 1..Len(data) |->
           CoreDorkCategory(data[i].key, Title(Replace(data[i].key, "_", " ")),
                            StripNonEmpty(data[i].items))]

\* the document core DorkRepository.save writes: {c.key: c.items}
CoreSaveDoc(cats) ==
    [kind       |-> "legacy",
     categories |-> [i \in 1..Len(cats) |-> [key |-> cats[i].key, items |-> cats[i].items]],
     profiles   |-> EmptyDict]

\* core QueryBuilder.extend on cleared parts: each token stripped, the empty dropped
Extend(tokens) == StripNonEmpty(tokens)

\* core QueryBuilder.build
CoreBuild(ps) == Strip(Join(<<" ">>, ps))

\* label.lower().replace(" ", "_")
KeyOfLabel(label) == Replace(LowerStr(label), " ", "_")

\* [cat.items[i] for i in sorted(self._checked)]
Tokens(items, chk) ==
    [k \in 1..Cardinality(chk) |-> PyGet(items, SortedSeq(chk)[k])]

\* no cat.items[i] of that list raises IndexError
TokensOK(items, chk) == \A i \in chk : PyIndexOK(items, i)

\* a signal with its argument
Emit(signal, value) == [signal |-> signal, value |-> value]

\* the fields of the controller of viewmodels.py that the ui/ controller lacks
non_ui_vars == <<current_index, checked_by_cat, not_by_cat, or_groups_by_cat, vars,
                 bvars, profiles, repo_categories, repo_profiles, shared,
                 shown_vars, saved>>

\* ui AppViewModel.__init__ on a store holding doc
UiConstructed(doc) ==
    /\ categories = CoreLoad(doc)
    /\ ui_current_key = (IF CoreLoad(doc) # <<>> THEN CoreLoad(doc)[1].key ELSE None)
    /\ ui_checked = {}
    /\ parts = <<>>
    /\ store = doc
    /\ query = <<>>
    /\ steps = 0
    /\ last = Call("init")
    /\ published = <<>>
    /\ current_index = -1
    /\ checked_by_cat = EmptyDict
    /\ not_by_cat = EmptyDict
    /\ or_groups_by_cat = EmptyDict
    /\ vars = EmptyDict
    /\ bvars = EmptyDict
    /\ profiles = EmptyDict
    /\ repo_categories = <<>>
    /\ repo_profiles = EmptyDict
    /\ shared = FALSE
    /\ shown_vars = EmptyDict
    /\ saved = EmptyDict

\* an early return of a ui handler
UiReturn(call) ==
    /\ last' = call
    /\ published' = <<>>
    /\ UNCHANGED <<categories, ui_current_key, ui_checked, parts, store, query>>

\* self._cat_by_key[self._current_key]
UiCurCat == categories[FindKey(categories, ui_current_key)]

\* ui AppViewModel.set_current_category
set_current_category(key) ==
    LET call == Call("set_current_category")
    IN IF key # <<>> /\ key \in Keys(categories) /\ key # ui_current_key
       THEN /\ ui_current_key' = key
            /\ ui_checked' = {}
            /\ parts' = <<>>
            /\ query' = CoreBuild(<<>>)
            /\ published' = <<Emit("current_category_changed", key),
                              Emit("dork_checks_changed", {}),
                              Emit("query_changed", CoreBuild(<<>>))>>
            /\ last' = call
            /\ UNCHANGED <<categories, store>>
       ELSE UiReturn(call)

\* ui AppViewModel.add_category
add_category(label) ==
    LET call == Call("add_category")
        l    == Strip(label)
        key  == KeyOfLabel(l)
    IN IF l = <<>> THEN UiReturn(call)
       ELSE IF key \in Keys(categories) THEN UiReturn(call)
       ELSE /\ categories' = Append(categories, CoreDorkCategory(key, l, <<>>))
            /\ ui_current_key' = key
            /\ ui_checked' = {}
            /\ parts' = <<>>
            /\ store' = CoreSaveDoc(categories')
            /\ query' = CoreBuild(<<>>)
            /\ published' = <<Emit("categories_changed", Keys(categories')),
                              Emit("current_category_changed", key),
                              Emit("dork_checks_changed", {}),
                              Emit("query_changed", CoreBuild(<<>>))>>
            /\ last' = call

\* l.remove(x): the first element equal to x is removed
ListRemove(l, x) ==
    LET p == Min({i \in 1..Len(l) : l[i] = x})
    IN SubSeq(l, 1, p - 1) \o SubSeq(l, p + 1, Len(l))

\* ui AppViewModel.delete_category
delete_category(key) ==
    LET call == Call("delete_category")
    IN IF key \notin Keys(categories) THEN UiReturn(call)
       ELSE LET cat         == categories[FindKey(categories, key)]
                cats2       == ListRemove(categories, cat)
                was_current == (ui_current_key = key)
                key2        == IF ~was_current THEN ui_current_key
                               ELSE IF cats2 # <<>> THEN cats2[1].key ELSE None
                emits       == key2 \notin {None, <<>>} /\ was_current
            IN /\ categories' = cats2
               /\ ui_current_key' = key2
               /\ ui_checked' = (IF was_current THEN {} ELSE ui_checked)
               /\ parts' = (IF was_current THEN <<>> ELSE parts)
               /\ store' = CoreSaveDoc(cats2)
               /\ query' = (IF emits THEN CoreBuild(parts') ELSE query)
               /\ published' =
                      <<Emit("categories_changed", Keys(cats2))>> \o
                      (IF emits
                       THEN <<Emit("current_category_changed", key2),
                              Emit("dork_checks_changed", {}),
                              Emit("query_changed", CoreBuild(parts'))>>
                       ELSE <<>>)
               /\ last' = call

\* ui AppViewModel.rename_category
rename_category(key, label) ==
    LET call    == Call("rename_category")
        l       == Strip(label)
        new_key == KeyOfLabel(l)
    IN IF key \notin Keys(categories) THEN UiReturn(call)
       ELSE IF l = <<>> THEN UiReturn(call)
       ELSE IF new_key # key /\ new_key \in Keys(categories) THEN UiReturn(call)
       ELSE LET idx     == FindKey(categories, key)
                new_cat == CoreDorkCategory(new_key, l, categories[idx].items)
            IN /\ categories' = [categories EXCEPT ![idx] = new_cat]
               /\ ui_current_key' = (IF ui_current_key = key THEN new_key
                                     ELSE ui_current_key)
               /\ store' = CoreSaveDoc(categories')
               /\ published' =
                      (IF ui_current_key = key
                       THEN <<Emit("current_category_changed", new_key)>> ELSE <<>>)
                      \o <<Emit("categories_changed", Keys(categories'))>>
               /\ last' = call
               /\ UNCHANGED <<ui_checked, parts, query>>

\* self._checked.add(index) if checked else self._checked.discard(index)
SetMember(s, index, checked) == IF checked THEN s \cup {index} ELSE s \ {index}

\* ui AppViewModel.set_dork_checked; a cat.items[i] that raises IndexError
\* leaves the handler after the checked set and the builder were changed
set_dork_checked(index, checked) ==
    LET call == Call("set_dork_checked")
    IN IF ui_current_key = None THEN UiReturn(call)
       ELSE IF ~(0 <= index /\ index < Len(UiCurCat.items)) THEN UiReturn(call)
       ELSE LET chk2 == SetMember(ui_checked, index, checked)
            IN IF ~TokensOK(UiCurCat.items, chk2)
               THEN /\ ui_checked' = chk2
                    /\ parts' = <<>>
                    /\ published' = <<>>
                    /\ last' = [call EXCEPT !.raised = TRUE]
                    /\ UNCHANGED <<categories, ui_current_key, store, query>>
               ELSE
               /\ ui_checked' = chk2
               /\ parts' = Extend(Tokens(UiCurCat.items, chk2))
               /\ query' = CoreBuild(parts')
               /\ published' = <<Emit("dork_checks_changed", chk2),
                                 Emit("query_changed", CoreBuild(parts'))>>
               /\ last' = call
               /\ UNCHANGED <<categories, ui_current_key, store>>

\* ui AppViewModel.add_dork
ui_add_dork(text) ==
    LET call == Call("add_dork")
        t    == Strip(text)
    IN IF ui_current_key = None THEN UiReturn(call)
       ELSE IF t = <<>> THEN UiReturn(call)
       ELSE /\ categories' = WithItems(categories, FindKey(categories, ui_current_key),
                                       Append(UiCurCat.items, t))
            /\ store' = CoreSaveDoc(categories')
            /\ published' = <<Emit("current_category_changed", ui_current_key)>>
            /\ last' = call
            /\ UNCHANGED <<ui_current_key, ui_checked, parts, query>>

\* ui AppViewModel.edit_dork
edit_dork(index, text) ==
    LET call == Call("edit_dork")
        t    == Strip(text)
    IN IF ui_current_key = None THEN UiReturn(call)
       ELSE IF ~(0 <= index /\ index < Len(UiCurCat.items)) \/ t = <<>>
            THEN UiReturn(call)
       ELSE LET items2 == [UiCurCat.items EXCEPT ![index + 1] = t]
                ps2    == IF index \in ui_checked
                          THEN Extend(Tokens(items2, ui_checked)) ELSE parts
            IN IF index \in ui_checked /\ ~TokensOK(items2, ui_checked)
               THEN /\ categories' = WithItems(categories,
                                       FindKey(categories, ui_current_key), items2)
                    /\ parts' = <<>>
                    /\ published' = <<>>
                    /\ last' = [call EXCEPT !.raised = TRUE]
                    /\ UNCHANGED <<ui_current_key, ui_checked, store, query>>
               ELSE
               /\ categories' = WithItems(categories,
                                          FindKey(categories, ui_current_key), items2)
               /\ parts' = ps2
               /\ query' = (IF index \in ui_checked THEN CoreBuild(ps2) ELSE query)
               /\ store' = CoreSaveDoc(categories')
               /\ published' =
                      (IF index \in ui_checked
                       THEN <<Emit("query_changed", CoreBuild(ps2))>> ELSE <<>>)
                      \o <<Emit("current_category_changed", ui_current_key)>>
               /\ last' = call
               /\ UNCHANGED <<ui_current_key, ui_checked>>

\* the remapping of a checked set that leaves out the shift: the index is
\* dropped, the others kept
ShiftCheckedKept(chk, index) == chk \ {index}

\* the loop of delete_dork over self._checked: an index below the removed
\* one is kept, one above it moved down by one
ShiftChecked(chk, index) ==
    {i : i \in {j \in chk : j < index}} \cup {i - 1 : i \in {j \in chk : j > index}}

\* l.pop(index) for an index in range
ListPop(l, index) == SubSeq(l, 1, index) \o SubSeq(l, index + 2, Len(l))

\* ui AppViewModel.delete_dork
delete_dork(index) ==
    LET call == Call("delete_dork")
    IN IF ui_current_key = None THEN UiReturn(call)
       ELSE IF ~(0 <= index /\ index < Len(UiCurCat.items)) THEN UiReturn(call)
       ELSE LET items2 == ListPop(UiCurCat.items, index)
                chk2   == ShiftChecked(ui_checked, index)
            IN IF ~TokensOK(items2, chk2)
               THEN /\ categories' = WithItems(categories,
                                       FindKey(categories, ui_current_key), items2)
                    /\ ui_checked' = chk2
                    /\ parts' = <<>>
                    /\ published' = <<>>
                    /\ last' = [call EXCEPT !.raised = TRUE]
                    /\ UNCHANGED <<ui_current_key, store, query>>
               ELSE
               /\ categories' = WithItems(categories,
                                          FindKey(categories, ui_current_key), items2)
               /\ ui_checked' = chk2
               /\ parts' = Extend(Tokens(items2, chk2))
               /\ query' = CoreBuild(parts')
               /\ store' = CoreSaveDoc(categories')
               /\ published' = <<Emit("dork_checks_changed", chk2),
                                 Emit("current_category_changed", ui_current_key),
                                 Emit("query_changed", CoreBuild(parts'))>>
               /\ last' = call
               /\ UNCHANGED ui_current_key

----------------------------------------------------------------------------
(* SpecUi: the ui/ controller on a stored, an empty and an absent document *)

MaxUiSteps == 4

KeyXY == <<"x", "_", "y">>

LabelXY == <<"X", " ", "y">>

\* the document {"alpha": ["a", "b", "c"], "beta": [" z "]}
UiDoc ==
    [kind       |-> "legacy",
     categories |-> <<[key |-> KeyA, items |-> <<<<"a">>, <<"b">>, <<"c">>>>],
                      [key |-> KeyB, items |-> <<<<" ", "z", " ">>>>]>>,
     profiles   |-> EmptyDict]

InitUi ==
    \/ UiConstructed(UiDoc)
    \/ UiConstructed(EmptyDoc)
    \/ UiConstructed(AbsentStore)

UiKeyArgs == {KeyA, KeyB, KeyXY}

UiLabelArgs == {LabelBeta, LabelXY, Blank}

UiIndexArgs == {0, 1, 2}

\* one more call of the ui/ controller is made
UiTick == steps < MaxUiSteps /\ steps' = steps + 1 /\ UNCHANGED non_ui_vars

NextUi ==
    \/ UiTick /\ \E k \in UiKeyArgs : set_current_category(k)
    \/ UiTick /\ \E l \in UiLabelArgs :
           Len(categories) < MaxCats /\ add_category(l)
    \/ UiTick /\ \E k \in UiKeyArgs : delete_category(k)
    \/ UiTick /\ \E k \in {KeyA, KeyB} : \E l \in UiLabelArgs : rename_category(k, l)
    \/ UiTick /\ \E i \in UiIndexArgs : \E b \in BOOLEAN : set_dork_checked(i, b)
    \/ UiTick /\ TotalItems(categories) < MaxItems /\ ui_add_dork(<<"q", " ">>)
    \/ UiTick /\ \E i \in UiIndexArgs : edit_dork(i, <<" ", "q">>)
    \/ UiTick /\ \E i \in UiIndexArgs : delete_dork(i)

SpecUi == InitUi /\ [][NextUi]_vars_all

----------------------------------------------------------------------------
(* Properties of the ui/ controller *)

\* every checked index is an index of a fragment of the current category
UiCheckedInRange ==
    \A i \in ui_checked :
        /\ ui_current_key \in Keys(categories)
        /\ 0 <= i
        /\ i < Len(UiCurCat.items)

\* C39: in the ui/ controller every checked index is within [0, len(items)) of
\* the current category after any calls of its handlers, and delete_dork(k)
\* for a fragment k of the current category leaves exactly the checked
\* indices below k and the checked indices above k moved down by one.
C39_UiCheckedValid ==
    /\ []UiCheckedInRange
    /\ [][\A k \in UiIndexArgs :
              (/\ ui_current_key # None
               /\ 0 <= k /\ k < Len(UiCurCat.items)
               /\ delete_dork(k)) =>
                  /\ \A i \in 0..(Len(UiCurCat.items) - 1) :
                         i \in ui_checked' <=>
                             \/ i < k /\ i \in ui_checked
                             \/ i >= k /\ (i + 1) \in ui_checked
                  /\ ui_checked' \subseteq 0..(Len(UiCurCat.items) - 2)
                  /\ Len(UiCurCat.items') = Len(UiCurCat.items) - 1]_vars_all

\* C39 witness: with a and c of alpha checked, b was deleted: the checked
\* indices are 0 and 1 of the two fragments left
C39_Witness ==
    /\ last.op = "delete_dork"
    /\ ui_current_key = KeyA
    /\ UiCurCat.items = <<<<"a">>, <<"c">>>>
    /\ ui_checked = {0, 1}
    /\ query = <<"a", " ", "c">>

\* C40 (as claimed): in the ui/ controller the argument of the last
\* query_changed is, after every call, the texts of the checked fragments of
\* the current category in ascending index order joined by spaces, and the
\* empty string when there is no current category.
C40_UiQueryPublished ==
    query = (IF ui_current_key \notin Keys(categories) THEN <<>>
             ELSE Joined([k \in 1..Cardinality(ui_checked) |->
                              UiCurCat.items[Ascending(ui_checked)[k] + 1]],
                         <<" ">>))

====
